---- MODULE Spec2Model ----
(***************************************************************************)
(* go-mirror-transform: the concurrent engine behind Crawl and Watch.      *)
(*                                                                         *)
(* One run of Crawl or Watch on an instance built by NewMirrorTransform:   *)
(* the coordinator (the body of Crawl / Watch), the worker goroutines      *)
(* (fileProcessor), the discovery goroutine (scanDirectory for Crawl,      *)
(* handleWatchEvents for Watch), the buffered channels taskChan and        *)
(* errChan, the caller's context and the derived processor context.        *)
(*                                                                         *)
(* A Go select is one step that takes any one of its ready cases; a        *)
(* goroutine moves between its blocking points in one step.                *)
(***************************************************************************)
EXTENDS Integers, Sequences, FiniteSets, Bags, TLC

(***************************************************************************)
(* Bounds of the model.                                                    *)
(***************************************************************************)
\* taskChan's capacity. The source allocates 1000 slots; the model scales
\* the buffer down so that a full channel is reachable.
TaskChanCap == 1
\* Largest value of Config.MaxConcurrency drawn (0 = unset).
MaxWorkers == 2
\* runtime.NumCPU() of the modelled host.
NumCPU == 2
\* Number of filesystem operations the environment performs during Watch.
MaxEvents == 2

\* errChan := make(chan error, 1)
ErrChanCap == 1

(***************************************************************************)
(* Paths.  A cleaned absolute path is the sequence of its components; the  *)
(* filesystem root is <<>>.  Its string form is a sequence of characters.  *)
(***************************************************************************)
Separator == "/"

\* The characters of a component name.
Chars(name) ==
    CASE name = "a"  -> <<"a">>
      [] name = "ab" -> <<"a", "b">>
      [] name = "b"  -> <<"b">>
      [] OTHER       -> <<name>>

RECURSIVE PathString(_)
\* filepath.Clean(abs): "/" for the root, otherwise "/c1/c2/...".
PathString(p) ==
    IF p = <<>> THEN <<Separator>>
    ELSE IF Len(p) = 1 THEN <<Separator>> \o Chars(p[1])
    ELSE PathString(SubSeq(p, 1, Len(p) - 1)) \o <<Separator>> \o Chars(p[Len(p)])

\* strings.HasPrefix(s, prefix)
HasPrefix(s, prefix) ==
    /\ Len(prefix) <= Len(s)
    /\ SubSeq(s, 1, Len(prefix)) = prefix

\* Component-wise containment, the relation the guard is meant to decide.
IsPathPrefix(p, q) ==
    /\ Len(p) <= Len(q)
    /\ SubSeq(q, 1, Len(p)) = p

\* filepath.Rel(base, path) for a path at or below base.
Rel(base, path) ==
    IF path = base THEN <<".">>
    ELSE SubSeq(path, Len(base) + 1, Len(path))

\* Slip: only the file's base name is joined, the directories are dropped.
JoinBase(dir, rel) ==
    IF rel = <<".">> THEN dir ELSE Append(dir, rel[Len(rel)])

\* filepath.Join(dir, rel): concatenates and cleans "." away.
Join(dir, rel) ==
    IF rel = <<".">> THEN dir ELSE dir \o rel

\* filepath.Dir(path)
Dir(path) ==
    IF path = <<>> THEN <<>> ELSE SubSeq(path, 1, Len(path) - 1)

\* Every directory os.MkdirAll(dir) brings into existence.
Ancestors(dir) == { SubSeq(dir, 1, n) : n \in 0..Len(dir) }

(***************************************************************************)
(* Errors.  nil is NilErr; every other error names its kind, the path it   *)
(* is about and what it wraps.                                             *)
(***************************************************************************)
Err(kind, path, cause) == [kind |-> kind, path |-> path, cause |-> cause]
NilErr == Err("nil", <<>>, "")
CtxErr(which) == Err("context", <<>>, which)

(***************************************************************************)
(* The glob matcher (doublestar.Match), consumed as a predicate.           *)
(***************************************************************************)
JpgNames == {"a.jpg", "b.jpg", "d.jpg", "e.jpg", "x.jpg"}
PngNames == {"c.png"}

\* Whether pattern has invalid syntax (doublestar.ErrBadPattern).
BadPattern(pattern) == pattern = "["

\* doublestar.Match(pattern, relPath) for a well-formed pattern.
Match(pattern, relPath) ==
    CASE pattern = "**/*.jpg" -> relPath[Len(relPath)] \in JpgNames
      [] pattern = "**/*.png" -> relPath[Len(relPath)] \in PngNames
      [] pattern = "temp/**"  -> relPath[1] = "temp"
      [] pattern = "dir/e*"   -> relPath = <<"dir", "e.jpg">>
      [] pattern = "**"       -> TRUE
      [] pattern = "."        -> relPath = <<".">>
      [] OTHER                -> FALSE

\* Slip: the loop returns after its first pattern.
MatchFirstOnly(patterns, relPath, i) ==
    IF i > Len(patterns) THEN [hit |-> "none", pattern |-> ""]
    ELSE IF BadPattern(patterns[i]) THEN [hit |-> "bad", pattern |-> patterns[i]]
    ELSE IF Match(patterns[i], relPath) THEN [hit |-> "match", pattern |-> patterns[i]]
    ELSE [hit |-> "none", pattern |-> ""]

\* Slip: the pattern loop never reports a match.
MatchLoopNoMatch(patterns, relPath, i) == [hit |-> "none", pattern |-> ""]

\* The pattern loop of the walk callback: patterns are tried in order; the
\* first bad pattern or the first match ends the loop.
RECURSIVE MatchLoop(_, _, _)
MatchLoop(patterns, relPath, i) ==
    IF i > Len(patterns) THEN [hit |-> "none", pattern |-> ""]
    ELSE IF BadPattern(patterns[i]) THEN [hit |-> "bad", pattern |-> patterns[i]]
    ELSE IF Match(patterns[i], relPath) THEN [hit |-> "match", pattern |-> patterns[i]]
    ELSE MatchLoop(patterns, relPath, i + 1)

(***************************************************************************)
(* The input tree, in the lexical pre-order filepath.Walk visits it.       *)
(* name is the entry's path below the input root (<<>> is the root).       *)
(***************************************************************************)
Tree ==
    << [name |-> <<>>,                isDir |-> TRUE ],
       [name |-> <<"a.jpg">>,         isDir |-> FALSE],
       [name |-> <<"dir">>,           isDir |-> TRUE ],
       [name |-> <<"dir", "c.png">>,  isDir |-> FALSE],
       [name |-> <<"dir", "d.jpg">>,  isDir |-> FALSE],
       [name |-> <<"dir", "e.jpg">>,  isDir |-> FALSE],
       [name |-> <<"n.txt">>,         isDir |-> FALSE],
       [name |-> <<"temp">>,          isDir |-> TRUE ],
       [name |-> <<"temp", "b.jpg">>, isDir |-> FALSE] >>

\* Slip: SkipDir is not honoured, the walk descends into the directory.
SkipNothing(i, j) == j

\* The entries filepath.Walk does not visit after SkipDir at entry i (or a
\* directory it could not read): everything below Tree[i].
RECURSIVE SkipPast(_, _)
SkipPast(i, j) ==
    IF j > Len(Tree) THEN j
    ELSE IF IsPathPrefix(Tree[i].name, Tree[j].name) THEN SkipPast(i, j + 1)
    ELSE j

VARIABLES
    mode,           \* "crawl" | "watch": which entry point this run is
    config,         \* mt.config after NewMirrorTransform
    walkErrs,       \* entries (indexes of Tree) the walk cannot access
    ctxErr,         \* ctx.Err(): "none" | "Canceled" | "DeadlineExceeded"
    procCancelled,  \* cancelProcessors() has been called
    pc,             \* the coordinator's position in Crawl / Watch
    pendingErr,     \* the error the coordinator received from errChan
    result,         \* the value Crawl / Watch returned (when pc = "returned")
    taskChan,       \* buffered contents of taskChan
    closes,         \* number of close(taskChan) calls
    errChan,        \* buffered contents of errChan
    workers,        \* bag of the states of the fileProcessor goroutines started
    scanner,        \* the discovery goroutine (scanner or event loop)
    outDirs,        \* directories existing under the output root
    calls,          \* bag of tasks FileCallback has been invoked with
    raised,         \* every error a goroutine has raised for errChan
    latched,        \* the first error errChan accepted (NilErr: none yet)
    errorCalls,     \* bag of the (path, err) ErrorCallback has been invoked with
    enqueued,       \* bag of tasks sent on taskChan
    subs,           \* directories subscribed with watcher.Add
    existing,       \* names that exist under the input root
    events,         \* watcher.Events not yet received
    nEvents,        \* filesystem operations performed so far
    prev            \* the previous call on this instance (NoPrev: none)

vars == << mode, config, walkErrs, ctxErr, procCancelled, pc, pendingErr, result,
           taskChan, closes, errChan, workers, scanner, outDirs, calls,
           raised, latched, errorCalls, enqueued, subs, existing, events,
           nEvents, prev >>

\* fileTask{inputPath, outputPath}
fileTask(inputPath, outputPath) == [inputPath |-> inputPath, outputPath |-> outputPath]
NoTask == fileTask(<<>>, <<>>)

(***************************************************************************)
(* NewMirrorTransform.  The caller's Config names its directories as it    *)
(* likes: a raw path may hold "." components, and the empty string is      *)
(* EmptyDir.  FileCallback and ErrorCallback are TRUE when non-nil.        *)
(***************************************************************************)
\* The empty string "" given as a directory (<<>> is the root "/").
EmptyDir == << "" >>

\* filepath.Clean(path) of a non-empty rooted path: "." components go away.
Clean(path) == SelectSeq(path, LAMBDA c : c # ".")

\* The nil MirrorTransform, and the instance holding cfg.
NilInstance == [nil |-> TRUE, config |-> << >>]
Instance(cfg) == [nil |-> FALSE, config |-> cfg]

\* Slip: the check of FileCallback is missing.
NewMirrorTransformNoCallbackCheck(cfg) ==
    IF cfg.InputDir = EmptyDir
        THEN [mt |-> NilInstance, err |-> Err("config", <<>>, "input directory is required")]
    ELSE IF cfg.OutputDir = EmptyDir
        THEN [mt |-> NilInstance, err |-> Err("config", <<>>, "output directory is required")]
    ELSE IF Len(cfg.Patterns) = 0
        THEN [mt |-> NilInstance, err |-> Err("config", <<>>, "at least one pattern is required")]
    ELSE [mt |-> Instance([cfg EXCEPT !.InputDir = Clean(cfg.InputDir),
                                      !.OutputDir = Clean(cfg.OutputDir)]),
          err |-> NilErr]

\* NewMirrorTransform(config): (instance, error).
NewMirrorTransform(cfg) ==
    IF cfg.InputDir = EmptyDir
        THEN [mt |-> NilInstance, err |-> Err("config", <<>>, "input directory is required")]
    ELSE IF cfg.OutputDir = EmptyDir
        THEN [mt |-> NilInstance, err |-> Err("config", <<>>, "output directory is required")]
    ELSE IF Len(cfg.Patterns) = 0
        THEN [mt |-> NilInstance, err |-> Err("config", <<>>, "at least one pattern is required")]
    ELSE IF ~cfg.FileCallback
        THEN [mt |-> NilInstance, err |-> Err("config", <<>>, "file callback is required")]
    ELSE [mt |-> Instance([cfg EXCEPT !.InputDir = Clean(cfg.InputDir),
                                      !.OutputDir = Clean(cfg.OutputDir)]),
          err |-> NilErr]

(***************************************************************************)
(* checkCircularReference                                                  *)
(***************************************************************************)
\* The string test of checkCircularReference on the cleaned absolute roots.
CircularByString(inputAbs, outputAbs) ==
    \/ HasPrefix(PathString(outputAbs), PathString(inputAbs) \o <<Separator>>)
    \/ PathString(outputAbs) = PathString(inputAbs)
    \/ HasPrefix(PathString(inputAbs), PathString(outputAbs) \o <<Separator>>)

checkCircularReference(cfg) ==
    IF CircularByString(cfg.InputDir, cfg.OutputDir)
    THEN Err("circular", cfg.OutputDir, "")
    ELSE NilErr

(***************************************************************************)
(* Effective worker count, as Crawl computes it and as Watch computes it.   *)
(***************************************************************************)
\* Slip: the configured Concurrency is never used, MaxConcurrency workers start.
ConcurrencyIgnored(cfg) ==
    IF cfg.MaxConcurrency <= 0 THEN NumCPU ELSE cfg.MaxConcurrency

Concurrency(cfg) ==
    LET maxConcurrency == IF cfg.MaxConcurrency <= 0 THEN NumCPU
                          ELSE cfg.MaxConcurrency
    IN  IF cfg.Concurrency <= 0 \/ cfg.Concurrency > maxConcurrency
        THEN maxConcurrency
        ELSE cfg.Concurrency

\* Slip: Watch does not clamp the configured Concurrency to maxConcurrency.
WatchConcurrencyUnclamped(cfg) ==
    LET maxConcurrency == IF cfg.MaxConcurrency <= 0 THEN NumCPU
                          ELSE cfg.MaxConcurrency
    IN  IF cfg.Concurrency <= 0 THEN maxConcurrency ELSE cfg.Concurrency

\* The same computation as Watch writes it.
WatchConcurrency(cfg) ==
    LET maxConcurrency == IF cfg.MaxConcurrency <= 0 THEN NumCPU
                          ELSE cfg.MaxConcurrency
    IN  IF cfg.Concurrency <= 0 \/ cfg.Concurrency > maxConcurrency
        THEN maxConcurrency
        ELSE cfg.Concurrency

(***************************************************************************)
(* Shared definitions of a run.                                            *)
(***************************************************************************)
\* <-ctx.Done() is ready.
CtxDone == ctxErr # "none"
\* <-processorCtx.Done() is ready: the parent is done or cancelProcessors ran.
ProcDone == CtxDone \/ procCancelled
\* processorCtx.Err()
ProcErr == IF CtxDone THEN CtxErr(ctxErr) ELSE CtxErr("Canceled")

\* The fileProcessor goroutines are anonymous: workers is the bag of their
\* states, Workers the states some goroutine is in.
Workers == BagToSet(workers)

\* workers, one goroutine having moved from state w to state next.
Moved(w, next) == (workers (-) SetToBag({w})) (+) SetToBag({next})

\* Slip: the workers are not added to the WaitGroup, only the scanner is.
DoneWithoutWorkers == scanner.pc = "exited"

\* <-done is ready: wg.Wait() has returned, every goroutine added to the
\* WaitGroup has called wg.Done().
Done ==
    /\ scanner.pc = "exited"
    /\ \A w \in Workers : w.pc = "exited"

\* What is remembered of an earlier call on the instance: whether it ran
\* undisturbed (context not cancelled, no error raised) and the tasks it
\* passed to FileCallback.
NoPrev == [called |-> FALSE, clean |-> FALSE, calls |-> {}]

idleWorker == [pc |-> "select", task |-> NoTask, err |-> NilErr]
exitedWorker == [pc |-> "exited", task |-> NoTask, err |-> NilErr]
idleScanner == [pc |-> "idle", idx |-> 1, task |-> NoTask, err |-> NilErr]
exitedScanner == [pc |-> "exited", idx |-> 1, task |-> NoTask, err |-> NilErr]

\* Number of workers whose FileCallback is executing.
Running ==
    BagCardinality([w \in { x \in Workers : x.pc = "callback" } |-> workers[w]])

(***************************************************************************)
(* The walk callback of scanDirectory, after its context check, for the    *)
(* entry at path with the given walk error.                                *)
(***************************************************************************)
\* Classification of an accessible entry (exclude loop, directory test,
\* include loop, output path).
Classify(cfg, path, isDir) ==
    LET relPath == Rel(cfg.InputDir, path)
        ex == MatchLoop(cfg.ExcludePatterns, relPath, 1)
        inc == MatchLoop(cfg.Patterns, relPath, 1)
    IN  IF ex.hit = "bad"
            THEN [act |-> "fail", err |-> Err("exclude-pattern", path, ex.pattern),
                  task |-> NoTask]
        ELSE IF ex.hit = "match"
            THEN [act |-> IF isDir THEN "skipdir" ELSE "continue", err |-> NilErr,
                  task |-> NoTask]
        ELSE IF isDir
            THEN [act |-> "continue", err |-> NilErr, task |-> NoTask]
        ELSE IF inc.hit = "bad"
            THEN [act |-> "fail", err |-> Err("pattern", path, inc.pattern),
                  task |-> NoTask]
        ELSE IF inc.hit = "none"
            THEN [act |-> "continue", err |-> NilErr, task |-> NoTask]
        ELSE [act |-> "enqueue", err |-> NilErr,
              task |-> fileTask(path, Join(cfg.OutputDir, relPath))]

\* The ErrorCallback protocol for an error at path: the callback answers
\* (stop, retErr); without a callback the error is fatal.
ErrorProtocol(cfg, path, stop, retErr) ==
    IF ~cfg.ErrorCallback THEN Err("access", path, "walk")
    ELSE IF retErr THEN Err("error-callback", path, "retErr")
    ELSE IF stop THEN Err("stopped", path, "walk")
    ELSE NilErr

\* errorCalls after the ErrorCallback protocol ran for err at path: the
\* callback, when there is one, has been invoked with (path, err).
ErrorCallbackInvoked(cfg, path, err) ==
    IF cfg.ErrorCallback THEN errorCalls (+) SetToBag({[path |-> path, err |-> err]})
    ELSE errorCalls

(***************************************************************************)
(* The caller's context.                                                   *)
(***************************************************************************)
\* The caller cancels ctx, or its deadline passes, while the call runs.
Cancel ==
    /\ ctxErr = "none"
    /\ pc # "returned"
    /\ \E which \in {"Canceled", "DeadlineExceeded"} : ctxErr' = which
    /\ UNCHANGED << mode, prev, config, walkErrs, procCancelled, pc, pendingErr, result,
                    taskChan, closes, errChan, workers, scanner, outDirs, calls,
                    raised, enqueued, subs, existing, events, nEvents,
                    latched, errorCalls >>

(***************************************************************************)
(* Construction.                                                           *)
(***************************************************************************)
\* The caller builds the instance: on a validation error there is none
\* (pc = "noinstance", result the error); otherwise config becomes the
\* instance's copy, its directories cleaned.
New ==
    /\ pc = "new"
    /\ LET r == NewMirrorTransform(config)
       IN  IF r.err # NilErr
           THEN /\ pc' = "noinstance"
                /\ result' = r.err
                /\ UNCHANGED config
           ELSE /\ pc' = "init"
                /\ config' = r.mt.config
                /\ UNCHANGED result
    /\ UNCHANGED << mode, prev, walkErrs, ctxErr, procCancelled, pendingErr,
                    taskChan, closes, errChan, workers, scanner, outDirs, calls,
                    raised, latched, errorCalls, enqueued, subs, existing,
                    events, nEvents >>

(***************************************************************************)
(* Crawl: the coordinator.                                                 *)
(***************************************************************************)
\* Crawl up to its select: the guard, the worker goroutines, the scanner
\* goroutine and the goroutine closing done.
CrawlStart ==
    /\ mode = "crawl"
    /\ pc = "init"
    /\ IF checkCircularReference(config) # NilErr
       THEN /\ pc' = "returned"
            /\ result' = checkCircularReference(config)
            /\ UNCHANGED << workers, scanner >>
       ELSE /\ workers' = [w \in {idleWorker} |-> Concurrency(config)]
            /\ scanner' = [scanner EXCEPT !.pc = "walk"]
            /\ pc' = "select"
            /\ UNCHANGED result
    /\ UNCHANGED << mode, prev, config, walkErrs, ctxErr, procCancelled, pendingErr,
                    taskChan, closes, errChan, outDirs, calls, raised, enqueued,
                    subs, existing, events, nEvents,
                    latched, errorCalls >>

\* Slip: taskChan is kept in the instance, made once and used by every call.
KeptTaskChan == [buf |-> taskChan, closes |-> closes]

\* taskChan := make(chan fileTask, 1000): empty and open.
FreshTaskChan == [buf |-> <<>>, closes |-> 0]

\* A second Crawl on the same instance, the first having returned: Crawl up
\* to its select once more, with the channels, the WaitGroup, the processor
\* context and the goroutines it makes anew, under the context of this call.
\* The filesystem (outDirs) is what the first call left.  calls, raised,
\* latched, errorCalls and enqueued record this call from here on.
CrawlAgain ==
    /\ mode = "crawl"
    /\ pc = "returned"
    /\ ~prev.called
    /\ prev' = [called |-> TRUE,
                clean |-> ~CtxDone /\ raised = {},
                calls |-> BagToSet(calls)]
    /\ ctxErr' = "none"
    /\ IF checkCircularReference(config) # NilErr
       THEN /\ pc' = "returned"
            /\ result' = checkCircularReference(config)
            /\ UNCHANGED << taskChan, closes, errChan, procCancelled, workers,
                            scanner, pendingErr >>
       ELSE /\ taskChan' = FreshTaskChan.buf
            /\ closes' = FreshTaskChan.closes
            /\ errChan' = <<>>
            /\ procCancelled' = FALSE
            /\ workers' = [w \in {idleWorker} |-> Concurrency(config)]
            /\ scanner' = [idleScanner EXCEPT !.pc = "walk"]
            /\ pendingErr' = NilErr
            /\ result' = NilErr
            /\ pc' = "select"
    /\ calls' = EmptyBag
    /\ raised' = {}
    /\ latched' = NilErr
    /\ errorCalls' = EmptyBag
    /\ enqueued' = EmptyBag
    /\ UNCHANGED << mode, config, walkErrs, outDirs, subs, existing, events,
                    nEvents >>

\* The coordinator's select, shared by Crawl and Watch: one ready case of
\* <-ctx.Done(), <-errChan and <-done is taken.
CoordSelect ==
    /\ pc = "select"
    /\ \/ /\ CtxDone
          /\ pc' = "waitCtx"
          /\ procCancelled' = TRUE
          /\ UNCHANGED << errChan, pendingErr, result >>
       \/ /\ errChan # <<>>
          /\ pendingErr' = Head(errChan)
          /\ errChan' = Tail(errChan)
          /\ pc' = "waitErr"
          /\ procCancelled' = TRUE
          /\ UNCHANGED result
       \/ /\ Done
          /\ pc' = "returned"
          /\ result' = NilErr
          /\ procCancelled' = TRUE
          /\ UNCHANGED << errChan, pendingErr >>
    /\ UNCHANGED << mode, prev, config, walkErrs, ctxErr, taskChan, closes, workers,
                    scanner, outDirs, calls, raised, enqueued, subs, existing,
                    events, nEvents,
                    latched, errorCalls >>

\* <-done after cancelProcessors(), then return ctx.Err() or err.
CoordWait ==
    /\ pc \in {"waitCtx", "waitErr"}
    /\ Done
    /\ pc' = "returned"
    /\ result' = IF pc = "waitCtx" THEN CtxErr(ctxErr) ELSE pendingErr
    /\ UNCHANGED << mode, prev, config, walkErrs, ctxErr, procCancelled, pendingErr,
                    taskChan, closes, errChan, workers, scanner, outDirs, calls,
                    raised, enqueued, subs, existing, events, nEvents,
                    latched, errorCalls >>

(***************************************************************************)
(* Crawl: the scanner goroutine (scanDirectory and the goroutine's tail).  *)
(***************************************************************************)
\* The scanner ends with the walk's error to report.
ScanFail(err) ==
    /\ scanner' = [scanner EXCEPT !.pc = "report", !.err = err]
    /\ raised' = raised \cup {err}

\* The scanner goes on to the entry after the current one (after the whole
\* subtree when skip).
ScanAdvance(skip) ==
    /\ scanner' = [scanner EXCEPT !.pc = "walk", !.task = NoTask,
                                  !.idx = IF skip THEN SkipPast(scanner.idx, scanner.idx + 1)
                                          ELSE scanner.idx + 1]
    /\ UNCHANGED raised

\* One call of the walk callback, up to its return or its blocking send.
ScanVisit ==
    /\ mode = "crawl"
    /\ scanner.pc = "walk"
    /\ scanner.idx <= Len(Tree)
    /\ LET entry == Tree[scanner.idx]
           path == config.InputDir \o entry.name
           c == Classify(config, path, entry.isDir)
       IN  /\ IF CtxDone THEN ScanFail(CtxErr(ctxErr))
              ELSE IF scanner.idx \in walkErrs
                  THEN \E stop \in BOOLEAN, retErr \in BOOLEAN :
                          LET e == ErrorProtocol(config, path, stop, retErr)
                          IN  IF e # NilErr THEN ScanFail(e) ELSE ScanAdvance(TRUE)
              ELSE IF c.act = "fail" THEN ScanFail(c.err)
              ELSE IF c.act = "skipdir" THEN ScanAdvance(TRUE)
              ELSE IF c.act = "continue" THEN ScanAdvance(FALSE)
              ELSE /\ scanner' = [scanner EXCEPT !.pc = "send", !.task = c.task]
                   /\ UNCHANGED raised
           /\ errorCalls' = IF ~CtxDone /\ scanner.idx \in walkErrs
                            THEN ErrorCallbackInvoked(config, path, "walk")
                            ELSE errorCalls
    /\ UNCHANGED << mode, prev, config, walkErrs, ctxErr, procCancelled, pc, pendingErr,
                    result, taskChan, closes, errChan, workers, outDirs, calls,
                    enqueued, subs, existing, events, nEvents,
                    latched >>

\* Slip: a plain blocking send, taskChan <- task, that never looks at ctx.
ScanSendBlocking ==
    /\ mode = "crawl"
    /\ scanner.pc = "send"
    /\ Len(taskChan) < TaskChanCap
    /\ taskChan' = Append(taskChan, scanner.task)
    /\ enqueued' = enqueued (+) SetToBag({scanner.task})
    /\ ScanAdvance(FALSE)
    /\ UNCHANGED << mode, prev, config, walkErrs, ctxErr, procCancelled, pc, pendingErr,
                    result, closes, errChan, workers, outDirs, calls,
                    subs, existing, events, nEvents,
                    latched, errorCalls >>

\* The send at the end of the walk callback:
\* select { case taskChan <- task: ; case <-ctx.Done(): }.
ScanSend ==
    /\ mode = "crawl"
    /\ scanner.pc = "send"
    /\ \/ /\ Len(taskChan) < TaskChanCap
          /\ taskChan' = Append(taskChan, scanner.task)
          /\ enqueued' = enqueued (+) SetToBag({scanner.task})
          /\ ScanAdvance(FALSE)
       \/ /\ CtxDone
          /\ ScanFail(CtxErr(ctxErr))
          /\ UNCHANGED << taskChan, enqueued >>
    /\ UNCHANGED << mode, prev, config, walkErrs, ctxErr, procCancelled, pc, pendingErr,
                    result, closes, errChan, workers, outDirs, calls,
                    subs, existing, events, nEvents,
                    latched, errorCalls >>

\* Slip: the scanner returns without closing taskChan.
ScanDoneLeavesOpen ==
    /\ mode = "crawl"
    /\ scanner.pc = "walk"
    /\ scanner.idx > Len(Tree)
    /\ scanner' = exitedScanner
    /\ UNCHANGED closes
    /\ UNCHANGED << mode, prev, config, walkErrs, ctxErr, procCancelled, pc, pendingErr,
                    result, taskChan, errChan, workers, outDirs, calls, raised,
                    enqueued, subs, existing, events, nEvents,
                    latched, errorCalls >>

\* The walk is over without an error: the deferred close(taskChan), wg.Done().
ScanDone ==
    /\ mode = "crawl"
    /\ scanner.pc = "walk"
    /\ scanner.idx > Len(Tree)
    /\ scanner' = exitedScanner
    /\ closes' = closes + 1
    /\ UNCHANGED << mode, prev, config, walkErrs, ctxErr, procCancelled, pc, pendingErr,
                    result, taskChan, errChan, workers, outDirs, calls, raised,
                    enqueued, subs, existing, events, nEvents,
                    latched, errorCalls >>

\* The walk returned an error: select { case errChan <- err: ; case <-ctx.Done(): },
\* then the deferred close(taskChan), wg.Done().
ScanReport ==
    /\ mode = "crawl"
    /\ scanner.pc = "report"
    /\ \/ /\ Len(errChan) < ErrChanCap
          /\ errChan' = Append(errChan, scanner.err)
          /\ latched' = IF latched = NilErr THEN scanner.err ELSE latched
       \/ /\ CtxDone
          /\ UNCHANGED << errChan, latched >>
    /\ scanner' = exitedScanner
    /\ closes' = closes + 1
    /\ UNCHANGED << mode, prev, config, walkErrs, ctxErr, procCancelled, pc, pendingErr,
                    result, taskChan, workers, outDirs, calls, raised, enqueued,
                    subs, existing, events, nEvents,
                    errorCalls >>

(***************************************************************************)
(* fileProcessor: the worker goroutines of Crawl and Watch.                *)
(***************************************************************************)
\* Slip: the receive leaves the task in taskChan for another worker.
WorkerSelectPeeks(w) ==
    /\ w.pc = "select"
    /\ \/ /\ ProcDone
          /\ workers' = Moved(w, exitedWorker)
          /\ UNCHANGED taskChan
       \/ /\ taskChan # <<>>
          /\ workers' = Moved(w, [w EXCEPT !.pc = "mkdir", !.task = Head(taskChan)])
          /\ UNCHANGED taskChan
       \/ /\ taskChan = <<>>
          /\ closes > 0
          /\ workers' = Moved(w, exitedWorker)
          /\ UNCHANGED taskChan
    /\ UNCHANGED << mode, prev, config, walkErrs, ctxErr, procCancelled, pc, pendingErr,
                    result, closes, errChan, scanner, outDirs, calls, raised,
                    enqueued, subs, existing, events, nEvents,
                    latched, errorCalls >>

\* The select at the top of the loop: processorCtx done, a task received, or
\* taskChan closed and drained.
WorkerSelect(w) ==
    /\ w.pc = "select"
    /\ \/ /\ ProcDone
          /\ workers' = Moved(w, exitedWorker)
          /\ UNCHANGED taskChan
       \/ /\ taskChan # <<>>
          /\ workers' = Moved(w, [w EXCEPT !.pc = "mkdir", !.task = Head(taskChan)])
          /\ taskChan' = Tail(taskChan)
       \/ /\ taskChan = <<>>
          /\ closes > 0
          /\ workers' = Moved(w, exitedWorker)
          /\ UNCHANGED taskChan
    /\ UNCHANGED << mode, prev, config, walkErrs, ctxErr, procCancelled, pc, pendingErr,
                    result, closes, errChan, scanner, outDirs, calls, raised,
                    enqueued, subs, existing, events, nEvents,
                    latched, errorCalls >>

\* Slip: the directory is derived from the input path.
outputDirOfInput(task) == Dir(task.inputPath)

\* outputDir := filepath.Dir(task.outputPath)
outputDirOf(task) == Dir(task.outputPath)

\* Slip: the error of os.MkdirAll is dropped and FileCallback is called.
MkdirFailureIgnored(worker) == [worker EXCEPT !.pc = "callback"]

\* The worker whose os.MkdirAll failed: it has the error to report and does
\* not call FileCallback.
MkdirFailure(worker) ==
    [worker EXCEPT !.pc = "report",
                   !.err = Err("mkdir", outputDirOf(worker.task), "MkdirAll")]

\* os.MkdirAll(outputDir, 0o755) and, when it succeeds, the call of
\* FileCallback.
WorkerMkdir(w) ==
    /\ w.pc = "mkdir"
    /\ \E ok \in BOOLEAN :
          LET next == IF ok THEN [w EXCEPT !.pc = "callback"] ELSE MkdirFailure(w)
          IN  /\ workers' = Moved(w, next)
              /\ outDirs' = IF ok THEN outDirs \cup Ancestors(outputDirOf(w.task))
                            ELSE outDirs
              /\ calls' = IF next.pc = "callback" THEN calls (+) SetToBag({w.task})
                          ELSE calls
              /\ raised' = IF next.pc = "report" THEN raised \cup {next.err}
                           ELSE raised
    /\ UNCHANGED << mode, prev, config, walkErrs, ctxErr, procCancelled, pc, pendingErr,
                    result, taskChan, closes, errChan, scanner, enqueued,
                    subs, existing, events, nEvents,
                    latched, errorCalls >>

\* Slip: the callback's outcome is offered to the ErrorCallback, which
\* downgrades it to "continue".
AfterCallbackDowngraded(worker, continueProcessing, failed) ==
    IF config.ErrorCallback \/ (continueProcessing /\ ~failed)
        THEN [worker EXCEPT !.pc = "select", !.task = NoTask]
    ELSE [worker EXCEPT !.pc = "report",
                        !.err = Err("callback", worker.task.inputPath, "cb")]

\* What the worker does with FileCallback's answer (continueProcessing, err).
AfterCallback(worker, continueProcessing, failed) ==
    IF failed
        THEN [worker EXCEPT !.pc = "report",
                            !.err = Err("callback", worker.task.inputPath, "cb")]
    ELSE IF ~continueProcessing
        THEN [worker EXCEPT !.pc = "report",
                            !.err = Err("stopped-by-callback", worker.task.inputPath, "")]
    ELSE [worker EXCEPT !.pc = "select", !.task = NoTask]

\* FileCallback returns.
WorkerCallbackReturn(w) ==
    /\ w.pc = "callback"
    /\ \E continueProcessing \in BOOLEAN, failed \in BOOLEAN :
          LET next == AfterCallback(w, continueProcessing, failed)
          IN  /\ workers' = Moved(w, next)
              /\ raised' = IF next.pc = "report" THEN raised \cup {next.err}
                           ELSE raised
    /\ UNCHANGED << mode, prev, config, walkErrs, ctxErr, procCancelled, pc, pendingErr,
                    result, taskChan, closes, errChan, scanner, outDirs, calls,
                    enqueued, subs, existing, events, nEvents,
                    latched, errorCalls >>

\* Slip: the worker goes round its loop again after reporting its error.
WorkerReportContinues(w) ==
    /\ w.pc = "report"
    /\ \/ /\ Len(errChan) < ErrChanCap
          /\ errChan' = Append(errChan, w.err)
          /\ latched' = IF latched = NilErr THEN w.err ELSE latched
       \/ /\ ProcDone
          /\ UNCHANGED << errChan, latched >>
    /\ workers' = Moved(w, idleWorker)
    /\ UNCHANGED << mode, prev, config, walkErrs, ctxErr, procCancelled, pc, pendingErr,
                    result, taskChan, closes, scanner, outDirs, calls, raised,
                    enqueued, subs, existing, events, nEvents,
                    errorCalls >>

\* select { case errChan <- err: ; case <-ctx.Done(): }, then return.
WorkerReport(w) ==
    /\ w.pc = "report"
    /\ \/ /\ Len(errChan) < ErrChanCap
          /\ errChan' = Append(errChan, w.err)
          /\ latched' = IF latched = NilErr THEN w.err ELSE latched
       \/ /\ ProcDone
          /\ UNCHANGED << errChan, latched >>
    /\ workers' = Moved(w, exitedWorker)
    /\ UNCHANGED << mode, prev, config, walkErrs, ctxErr, procCancelled, pc, pendingErr,
                    result, taskChan, closes, scanner, outDirs, calls, raised,
                    enqueued, subs, existing, events, nEvents,
                    errorCalls >>

(***************************************************************************)
(* Watch: the coordinator up to its select.                                *)
(***************************************************************************)
\* Names the environment creates, writes or removes while Watch runs.
WatchNames ==
    { <<"a.jpg">>, <<"n.txt">>, <<"temp">>, <<"dir", "e.jpg">>,
      <<"newdir">>, <<"newdir", "x.jpg">> }

\* info.IsDir() of an existing name.
IsDirName(name) ==
    name \in { Tree[i].name : i \in { j \in 1..Len(Tree) : Tree[j].isDir } }
             \cup { <<"newdir">> }

\* addWatchDirs: the walk from entry i on, acc.subs being the directories
\* subscribed so far and acc.asked the paths ErrorCallback was invoked with.
\* addFail is the entry at which watcher.Add fails (0: nowhere); (stop,
\* retErr) is the ErrorCallback's answer.
RECURSIVE addWatchDirs(_, _, _, _, _, _, _)
addWatchDirs(cfg, errs, i, acc, addFail, stop, retErr) ==
    IF i > Len(Tree) THEN [err |-> NilErr, subs |-> acc.subs, asked |-> acc.asked]
    ELSE
    LET path == cfg.InputDir \o Tree[i].name
        relPath == Rel(cfg.InputDir, path)
        ex == IF relPath # <<".">> THEN MatchLoop(cfg.ExcludePatterns, relPath, 1)
              ELSE [hit |-> "none", pattern |-> ""]
        asked == IF cfg.ErrorCallback THEN acc.asked \cup {path} ELSE acc.asked
    IN  IF i \in errs
            THEN IF ErrorProtocol(cfg, path, stop, retErr) # NilErr
                 THEN [err |-> ErrorProtocol(cfg, path, stop, retErr),
                       subs |-> acc.subs, asked |-> asked]
                 ELSE addWatchDirs(cfg, errs, SkipPast(i, i + 1),
                                   [acc EXCEPT !.asked = asked], addFail, stop, retErr)
        ELSE IF ~Tree[i].isDir
            THEN addWatchDirs(cfg, errs, i + 1, acc, addFail, stop, retErr)
        ELSE IF ex.hit = "bad"
            THEN [err |-> Err("exclude-pattern", path, ex.pattern),
                  subs |-> acc.subs, asked |-> acc.asked]
        ELSE IF ex.hit = "match"
            THEN addWatchDirs(cfg, errs, SkipPast(i, i + 1), acc, addFail, stop, retErr)
        ELSE IF i = addFail
            THEN [err |-> Err("add-watch", path, "watcher.Add"),
                  subs |-> acc.subs, asked |-> acc.asked]
        ELSE addWatchDirs(cfg, errs, i + 1, [acc EXCEPT !.subs = acc.subs \cup {path}],
                          addFail, stop, retErr)

\* Watch up to addWatchDirs: the guard, the watcher, the worker goroutines.
WatchStart ==
    /\ mode = "watch"
    /\ pc = "init"
    /\ IF checkCircularReference(config) # NilErr
       THEN /\ pc' = "returned"
            /\ result' = checkCircularReference(config)
            /\ UNCHANGED workers
       ELSE \/ /\ pc' = "returned"
               /\ result' = Err("new-watcher", <<>>, "fsnotify.NewWatcher")
               /\ UNCHANGED workers
            \/ /\ workers' = [w \in {idleWorker} |-> WatchConcurrency(config)]
               /\ pc' = "addWatchDirs"
               /\ UNCHANGED result
    /\ UNCHANGED << mode, prev, config, walkErrs, ctxErr, procCancelled, pendingErr,
                    taskChan, closes, errChan, scanner, outDirs, calls, raised,
                    enqueued, subs, existing, events, nEvents,
                    latched, errorCalls >>

\* addWatchDirs and what follows it: on an error Watch returns at once (its
\* deferred cancelProcessors() runs); otherwise the event handler goroutine
\* is started and Watch reaches its select.
WatchAddDirs ==
    /\ mode = "watch"
    /\ pc = "addWatchDirs"
    /\ \E addFail \in 0..Len(Tree), stop \in BOOLEAN, retErr \in BOOLEAN :
          LET r == addWatchDirs(config, walkErrs, 1, [subs |-> {}, asked |-> {}],
                                addFail, stop, retErr)
          IN  /\ subs' = r.subs
              /\ errorCalls' = errorCalls
                                 (+) SetToBag({ [path |-> q, err |-> "walk"] : q \in r.asked })
              /\ IF r.err # NilErr
                 THEN /\ pc' = "returned"
                      /\ result' = Err("add-watch-dirs", r.err.path, r.err.kind)
                      /\ procCancelled' = TRUE
                      /\ UNCHANGED scanner
                 ELSE /\ pc' = "select"
                      /\ scanner' = [scanner EXCEPT !.pc = "loop"]
                      /\ UNCHANGED << result, procCancelled >>
    /\ UNCHANGED << mode, prev, config, walkErrs, ctxErr, pendingErr, taskChan, closes,
                    errChan, workers, outDirs, calls, raised, enqueued, existing,
                    events, nEvents,
                    latched >>

(***************************************************************************)
(* Watch: the filesystem and the notification source.                      *)
(***************************************************************************)
\* fsnotify.Op is a bit mask: an event's op is the set of operation kinds it
\* carries.  What the notification source reports when a name goes away: a
\* removal, or a rename coalesced with the write before it.
RemovalOps == { {"Remove"}, {"Write", "Rename"} }

\* The event the notification source delivers for an operation on name: one
\* is delivered only when the directory holding name is subscribed.
Notify(name, op) ==
    IF (config.InputDir \o Dir(name)) \in subs
    THEN Append(events, [name |-> config.InputDir \o name, op |-> op])
    ELSE events

\* The environment creates, writes, or removes or renames away a name under
\* the input root.
FsOp ==
    /\ mode = "watch"
    /\ pc \in {"select", "waitCtx", "waitErr"}
    /\ nEvents < MaxEvents
    /\ nEvents' = nEvents + 1
    /\ \E name \in WatchNames :
          \/ /\ name \notin existing
             /\ Dir(name) \in existing
             /\ existing' = existing \cup {name}
             /\ events' = Notify(name, {"Create"})
          \/ /\ name \in existing
             /\ UNCHANGED existing
             /\ events' = Notify(name, {"Write"})
          \/ /\ name \in existing
             /\ ~IsDirName(name)
             /\ existing' = existing \ {name}
             /\ \E op \in RemovalOps : events' = Notify(name, op)
    /\ UNCHANGED << mode, prev, config, walkErrs, ctxErr, procCancelled, pc, pendingErr,
                    result, taskChan, closes, errChan, workers, scanner, outDirs,
                    calls, raised, enqueued, subs,
                    latched, errorCalls >>

(***************************************************************************)
(* Watch: the event handler goroutine (handleWatchEvents).                 *)
(***************************************************************************)
\* Slip: adding a watch drops the ones already there.
AddReplacing(path) == {path}

\* watcher.Add(event.Name) succeeding: one more directory is subscribed.
Add(path) == subs \cup {path}

\* Slip: a path that has vanished is reported like any other stat failure.
IsNotExistNever(name) == FALSE

\* os.IsNotExist(err) of os.Stat(event.Name): the path is gone.
IsNotExist(name) == name \notin existing

\* Slip: the op is compared with == fsnotify.Remove, not masked.
IgnoredExactRemove(op) == op = {"Remove"}

\* event.Op&(fsnotify.Remove|fsnotify.Rename) != 0
Ignored(op) == op \cap {"Remove", "Rename"} # {}

\* Slip: an exit path of the event loop returns without close(taskChan).
EvExitLeavesOpen ==
    /\ scanner' = exitedScanner
    /\ UNCHANGED closes

\* The event handler ends: close(taskChan), return, wg.Done().
EvExit ==
    /\ scanner' = exitedScanner
    /\ closes' = closes + 1

\* Slip: the event loop is given the caller's ctx, not processorCtx.
EvCancelledByCaller ==
    /\ mode = "watch"
    /\ scanner.pc = "loop"
    /\ CtxDone
    /\ EvExit
    /\ UNCHANGED << mode, prev, config, walkErrs, ctxErr, procCancelled, pc, pendingErr,
                    result, taskChan, errChan, workers, outDirs, calls, raised,
                    enqueued, subs, existing, events, nEvents,
                    latched, errorCalls >>

\* case <-ctx.Done() of the event loop's select.
EvCancelled ==
    /\ mode = "watch"
    /\ scanner.pc = "loop"
    /\ ProcDone
    /\ EvExit
    /\ UNCHANGED << mode, prev, config, walkErrs, ctxErr, procCancelled, pc, pendingErr,
                    result, taskChan, errChan, workers, outDirs, calls, raised,
                    enqueued, subs, existing, events, nEvents,
                    latched, errorCalls >>

\* Slip: a directory event subscribes the directory without consulting the
\* exclude patterns.
EvEventSubscribesExcluded ==
    /\ mode = "watch"
    /\ scanner.pc = "loop"
    /\ events # <<>>
    /\ events' = Tail(events)
    /\ LET event == Head(events)
           name == Rel(config.InputDir, event.name)
           isDir == IsDirName(name)
           c == Classify(config, event.name, isDir)
       IN  IF Ignored(event.op)
               THEN UNCHANGED << scanner, subs, errorCalls >>
           ELSE IF IsNotExist(name)
               THEN UNCHANGED << scanner, subs, errorCalls >>
           ELSE \E statFails \in BOOLEAN, addFails \in BOOLEAN,
                   stop \in BOOLEAN, retErr \in BOOLEAN :
                IF statFails
                    THEN /\ scanner' =
                              IF ErrorProtocol(config, event.name, stop, retErr) # NilErr
                              THEN [scanner EXCEPT !.pc = "report",
                                       !.err = ErrorProtocol(config, event.name, stop, retErr)]
                              ELSE scanner
                         /\ errorCalls' = ErrorCallbackInvoked(config, event.name, "stat")
                         /\ UNCHANGED subs
                ELSE IF c.act = "fail"
                    THEN /\ scanner' = [scanner EXCEPT !.pc = "report", !.err = c.err]
                         /\ UNCHANGED << subs, errorCalls >>
                ELSE IF isDir /\ c.act \in {"continue", "skipdir"} /\ addFails
                    THEN /\ scanner' = [scanner EXCEPT !.pc = "report",
                                           !.err = Err("add-watch", event.name, "watcher.Add")]
                         /\ UNCHANGED << subs, errorCalls >>
                ELSE IF isDir /\ c.act \in {"continue", "skipdir"}
                    THEN /\ subs' = Add(event.name)
                         /\ UNCHANGED << scanner, errorCalls >>
                ELSE IF c.act = "enqueue"
                    THEN /\ scanner' = [scanner EXCEPT !.pc = "send", !.task = c.task]
                         /\ UNCHANGED << subs, errorCalls >>
                ELSE UNCHANGED << scanner, subs, errorCalls >>
    /\ raised' = IF scanner'.pc = "report" THEN raised \cup {scanner'.err} ELSE raised
    /\ UNCHANGED << mode, prev, config, walkErrs, ctxErr, procCancelled, pc, pendingErr,
                    result, taskChan, closes, errChan, workers, outDirs, calls,
                    enqueued, existing, nEvents,
                    latched >>

\* case event := <-watcher.Events, and processWatchEvent up to its return or
\* its blocking send.  statFails: os.Stat fails with an error other than
\* not-exist; addFails: watcher.Add fails; (stop, retErr): ErrorCallback.
EvEvent ==
    /\ mode = "watch"
    /\ scanner.pc = "loop"
    /\ events # <<>>
    /\ events' = Tail(events)
    /\ LET event == Head(events)
           name == Rel(config.InputDir, event.name)
           isDir == IsDirName(name)
           c == Classify(config, event.name, isDir)
       IN  IF Ignored(event.op)
               THEN UNCHANGED << scanner, subs, errorCalls >>
           ELSE IF IsNotExist(name)
               THEN UNCHANGED << scanner, subs, errorCalls >>
           ELSE \E statFails \in BOOLEAN, addFails \in BOOLEAN,
                   stop \in BOOLEAN, retErr \in BOOLEAN :
                IF statFails
                    THEN /\ scanner' =
                              IF ErrorProtocol(config, event.name, stop, retErr) # NilErr
                              THEN [scanner EXCEPT !.pc = "report",
                                       !.err = ErrorProtocol(config, event.name, stop, retErr)]
                              ELSE scanner
                         /\ errorCalls' = ErrorCallbackInvoked(config, event.name, "stat")
                         /\ UNCHANGED subs
                ELSE IF c.act = "fail"
                    THEN /\ scanner' = [scanner EXCEPT !.pc = "report", !.err = c.err]
                         /\ UNCHANGED << subs, errorCalls >>
                ELSE IF isDir /\ c.act = "continue" /\ addFails
                    THEN /\ scanner' = [scanner EXCEPT !.pc = "report",
                                           !.err = Err("add-watch", event.name, "watcher.Add")]
                         /\ UNCHANGED << subs, errorCalls >>
                ELSE IF isDir /\ c.act = "continue"
                    THEN /\ subs' = Add(event.name)
                         /\ UNCHANGED << scanner, errorCalls >>
                ELSE IF c.act = "enqueue"
                    THEN /\ scanner' = [scanner EXCEPT !.pc = "send", !.task = c.task]
                         /\ UNCHANGED << subs, errorCalls >>
                ELSE UNCHANGED << scanner, subs, errorCalls >>
    /\ raised' = IF scanner'.pc = "report" THEN raised \cup {scanner'.err} ELSE raised
    /\ UNCHANGED << mode, prev, config, walkErrs, ctxErr, procCancelled, pc, pendingErr,
                    result, taskChan, closes, errChan, workers, outDirs, calls,
                    enqueued, existing, nEvents,
                    latched >>

\* case err := <-watcher.Errors: the ErrorCallback protocol for "watcher".
EvWatcherError ==
    /\ mode = "watch"
    /\ scanner.pc = "loop"
    /\ nEvents < MaxEvents
    /\ nEvents' = nEvents + 1
    /\ \E stop \in BOOLEAN, retErr \in BOOLEAN :
          scanner' =
              IF ~config.ErrorCallback
                  THEN [scanner EXCEPT !.pc = "report",
                                       !.err = Err("watcher", <<>>, "watcher")]
              ELSE IF retErr
                  THEN [scanner EXCEPT !.pc = "report",
                                       !.err = Err("error-callback", <<>>, "retErr")]
              ELSE IF stop
                  THEN [scanner EXCEPT !.pc = "report",
                                       !.err = Err("stopped", <<>>, "watcher")]
              ELSE scanner
    /\ errorCalls' = ErrorCallbackInvoked(config, <<"watcher">>, "watcher")
    /\ raised' = IF scanner'.pc = "report" THEN raised \cup {scanner'.err} ELSE raised
    /\ UNCHANGED << mode, prev, config, walkErrs, ctxErr, procCancelled, pc, pendingErr,
                    result, taskChan, closes, errChan, workers, outDirs, calls,
                    enqueued, subs, existing, events,
                    latched >>

\* Slip: the send does not block, a task finding taskChan full is dropped.
EvSendNonBlocking ==
    /\ mode = "watch"
    /\ scanner.pc = "send"
    /\ \/ /\ Len(taskChan) < TaskChanCap
          /\ taskChan' = Append(taskChan, scanner.task)
          /\ enqueued' = enqueued (+) SetToBag({scanner.task})
          /\ scanner' = [scanner EXCEPT !.pc = "loop", !.task = NoTask]
       \/ /\ Len(taskChan) >= TaskChanCap
          /\ scanner' = [scanner EXCEPT !.pc = "loop", !.task = NoTask]
          /\ UNCHANGED << taskChan, enqueued >>
    /\ UNCHANGED << mode, prev, config, walkErrs, ctxErr, procCancelled, pc, pendingErr,
                    result, closes, errChan, workers, outDirs, calls, raised,
                    latched, subs, existing, events, nEvents,
                    errorCalls >>

\* The send at the end of processWatchEvent:
\* select { case taskChan <- task: ; case <-ctx.Done(): return ctx.Err() }.
EvSend ==
    /\ mode = "watch"
    /\ scanner.pc = "send"
    /\ \/ /\ Len(taskChan) < TaskChanCap
          /\ taskChan' = Append(taskChan, scanner.task)
          /\ enqueued' = enqueued (+) SetToBag({scanner.task})
          /\ scanner' = [scanner EXCEPT !.pc = "loop", !.task = NoTask]
       \/ /\ ProcDone
          /\ scanner' = [scanner EXCEPT !.pc = "report", !.err = ProcErr]
          /\ UNCHANGED << taskChan, enqueued >>
    /\ raised' = IF scanner'.pc = "report" THEN raised \cup {scanner'.err} ELSE raised
    /\ UNCHANGED << mode, prev, config, walkErrs, ctxErr, procCancelled, pc, pendingErr,
                    result, closes, errChan, workers, outDirs, calls,
                    subs, existing, events, nEvents,
                    latched, errorCalls >>

\* select { case errChan <- err: ; case <-ctx.Done(): }, close(taskChan), return.
EvReport ==
    /\ mode = "watch"
    /\ scanner.pc = "report"
    /\ \/ /\ Len(errChan) < ErrChanCap
          /\ errChan' = Append(errChan, scanner.err)
          /\ latched' = IF latched = NilErr THEN scanner.err ELSE latched
       \/ /\ ProcDone
          /\ UNCHANGED << errChan, latched >>
    /\ EvExit
    /\ UNCHANGED << mode, prev, config, walkErrs, ctxErr, procCancelled, pc, pendingErr,
                    result, taskChan, workers, outDirs, calls, raised, enqueued,
                    subs, existing, events, nEvents,
                    errorCalls >>

(***************************************************************************)
(* Specification.                                                          *)
(***************************************************************************)
Patterns == << "**/*.jpg", "**/*.png" >>

\* The configurations a run is started with.
Configs ==
    [ InputDir : {<<"a">>}, OutputDir : {<<"ab">>},
      Patterns : {Patterns}, ExcludePatterns : {<<"temp/**", "dir/e*">>},
      Concurrency : {0, 1, MaxWorkers}, MaxConcurrency : {0, MaxWorkers - 1},
      FileCallback : {TRUE}, ErrorCallback : {FALSE} ]

InitWith(configs, errSets) ==
    /\ mode \in {"crawl", "watch"}
    /\ config \in configs
    /\ walkErrs \in errSets
    /\ ctxErr = "none"
    /\ procCancelled = FALSE
    /\ pc = "init"
    /\ pendingErr = NilErr
    /\ result = NilErr
    /\ taskChan = <<>>
    /\ closes = 0
    /\ errChan = <<>>
    /\ workers = EmptyBag
    /\ scanner = idleScanner
    /\ outDirs = {}
    /\ calls = EmptyBag
    /\ raised = {}
    /\ latched = NilErr
    /\ errorCalls = EmptyBag
    /\ enqueued = EmptyBag
    /\ subs = {}
    /\ existing = { Tree[i].name : i \in 1..Len(Tree) }
    /\ events = <<>>
    /\ nEvents = 0
    /\ prev = NoPrev

Next ==
    \/ Cancel
    \/ CrawlStart
    \/ CoordSelect
    \/ CoordWait
    \/ ScanVisit
    \/ ScanSend
    \/ ScanDone
    \/ ScanReport
    \/ WatchStart
    \/ WatchAddDirs
    \/ FsOp
    \/ EvCancelled
    \/ EvEvent
    \/ EvWatcherError
    \/ EvSend
    \/ EvReport
    \/ \E w \in Workers : WorkerSelect(w)
    \/ \E w \in Workers : WorkerMkdir(w)
    \/ \E w \in Workers : WorkerCallbackReturn(w)
    \/ \E w \in Workers : WorkerReport(w)

Init == InitWith(Configs, {{}})

Spec == Init /\ [][Next]_vars

(***************************************************************************)
(* The same run under the Go scheduler's fairness: a goroutine that can    *)
(* take a step eventually takes one, and FileCallback returns.  The        *)
(* environment (cancellation, filesystem operations, watcher errors) is    *)
(* under no obligation.                                                    *)
(***************************************************************************)
\* The steps of the goroutine running Crawl / Watch.
CoordNext == CrawlStart \/ WatchStart \/ WatchAddDirs \/ CoordSelect \/ CoordWait

\* The steps of the discovery goroutine.
DiscoveryNext ==
    \/ ScanVisit \/ ScanSend \/ ScanDone \/ ScanReport
    \/ EvCancelled \/ EvEvent \/ EvSend \/ EvReport

\* The steps of the fileProcessor goroutines.
WorkerNext ==
    \E w \in Workers :
        WorkerSelect(w) \/ WorkerMkdir(w) \/ WorkerCallbackReturn(w) \/ WorkerReport(w)

Fairness ==
    /\ WF_vars(CoordNext)
    /\ WF_vars(DiscoveryNext)
    /\ WF_vars(WorkerNext)

\* The configurations of the fair runs: one worker, or two.
LiveConfigs ==
    [ InputDir : {<<"a">>}, OutputDir : {<<"ab">>},
      Patterns : {Patterns}, ExcludePatterns : {<<"temp/**", "dir/e*">>},
      Concurrency : {1, 2}, MaxConcurrency : {0},
      FileCallback : {TRUE}, ErrorCallback : {FALSE} ]

InitLive == InitWith(LiveConfigs, {{}})

SpecLive == InitLive /\ [][Next]_vars /\ Fairness

(***************************************************************************)
(* A specification for the error paths: one worker; the ErrorCallback is   *)
(* configured or not (its answers are drawn at each call); the pattern     *)
(* lists are well-formed or end with a malformed pattern; the walk cannot  *)
(* access the input root, a file, a directory, or fails nowhere.           *)
(***************************************************************************)
BadIncludes == << "**/*.jpg", "[" >>
BadExcludes == << "temp/**", "[" >>

\* Entries of Tree the walk cannot access: none, the root, the file a.jpg,
\* the directory dir.
WalkErrSets == { {}, {1}, {2}, {3} }

ErrConfigs ==
    [ InputDir : {<<"a">>}, OutputDir : {<<"ab">>},
      Patterns : {Patterns, BadIncludes},
      ExcludePatterns : {<<"temp/**", "dir/e*">>, BadExcludes},
      Concurrency : {1}, MaxConcurrency : {0},
      FileCallback : {TRUE}, ErrorCallback : BOOLEAN ]

InitErr == InitWith(ErrConfigs, WalkErrSets)

SpecErr == InitErr /\ [][Next]_vars

(***************************************************************************)
(* Fair runs with two workers in which the walk may also fail: the file    *)
(* n.txt, met after three matching files, cannot be accessed and there is  *)
(* no ErrorCallback, so failing workers and a failing scanner can all have *)
(* an error to report in the same run.                                     *)
(***************************************************************************)
ReportConfigs ==
    [ InputDir : {<<"a">>}, OutputDir : {<<"ab">>},
      Patterns : {Patterns}, ExcludePatterns : {<<"temp/**", "dir/e*">>},
      Concurrency : {2}, MaxConcurrency : {0},
      FileCallback : {TRUE}, ErrorCallback : {FALSE} ]

\* Entries of Tree the walk cannot access: none, or the file n.txt.
ReportErrSets == { {}, {7} }

InitReport == InitWith(ReportConfigs, ReportErrSets)

SpecReport == InitReport /\ [][Next]_vars /\ Fairness

(***************************************************************************)
(* Runs whose exclude patterns name the input root itself: "." is the      *)
(* relative path filepath.Rel gives for InputDir.                          *)
(***************************************************************************)
RootConfigs ==
    [ InputDir : {<<"a">>}, OutputDir : {<<"ab">>},
      Patterns : {Patterns}, ExcludePatterns : {<<".">>, <<"temp/**", "dir/e*">>},
      Concurrency : {1}, MaxConcurrency : {0},
      FileCallback : {TRUE}, ErrorCallback : {FALSE} ]

InitRoot == InitWith(RootConfigs, {{}})

SpecRoot == InitRoot /\ [][Next]_vars

(***************************************************************************)
(* A second specification for the circular-reference guard: the roots      *)
(* range over every pair of cleaned absolute paths of depth <= MaxDepth    *)
(* over RootNames; one worker.                                             *)
(***************************************************************************)
MaxDepth == 2
RootNames == {"a", "ab"}

RECURSIVE PathsOfDepth(_)
PathsOfDepth(n) ==
    IF n = 0 THEN {<<>>}
    ELSE { Append(p, c) : p \in PathsOfDepth(n - 1), c \in RootNames }

Roots == UNION { PathsOfDepth(n) : n \in 0..MaxDepth }

GuardConfigs ==
    [ InputDir : Roots, OutputDir : Roots,
      Patterns : {Patterns}, ExcludePatterns : {<<"temp/**", "dir/e*">>},
      Concurrency : {1}, MaxConcurrency : {1},
      FileCallback : {TRUE}, ErrorCallback : {FALSE} ]

InitGuard == InitWith(GuardConfigs, {{}})

SpecGuard == InitGuard /\ [][Next]_vars

(***************************************************************************)
(* A specification of two successive Crawl calls on one instance.          *)
(***************************************************************************)
\* One worker, or two.
InitTwice == InitLive /\ mode = "crawl"

NextTwice ==
    \/ Cancel
    \/ CrawlStart
    \/ CrawlAgain
    \/ CoordSelect
    \/ CoordWait
    \/ ScanVisit
    \/ ScanSend
    \/ ScanDone
    \/ ScanReport
    \/ \E w \in Workers : WorkerSelect(w)
    \/ \E w \in Workers : WorkerMkdir(w)
    \/ \E w \in Workers : WorkerCallbackReturn(w)
    \/ \E w \in Workers : WorkerReport(w)

SpecTwice == InitTwice /\ [][NextTwice]_vars

(***************************************************************************)
(* A specification of construction and start: the caller hands any Config  *)
(* to NewMirrorTransform, then calls Crawl or Watch on the instance, which *)
(* runs up to the start of its goroutines.                                 *)
(***************************************************************************)
\* The Configs a caller passes to NewMirrorTransform.
RawConfigs ==
    [ InputDir : {EmptyDir, <<"a">>, <<"a", ".">>},
      OutputDir : {EmptyDir, <<"ab">>, <<".", "ab">>},
      Patterns : {<< >>, Patterns}, ExcludePatterns : {<<"temp/**", "dir/e*">>},
      Concurrency : (0 - 2)..(NumCPU + 2), MaxConcurrency : (0 - 2)..(NumCPU + 2),
      FileCallback : BOOLEAN, ErrorCallback : {FALSE} ]

InitNew ==
    /\ mode \in {"crawl", "watch"}
    /\ config \in RawConfigs
    /\ walkErrs = {}
    /\ ctxErr = "none"
    /\ procCancelled = FALSE
    /\ pc = "new"
    /\ pendingErr = NilErr
    /\ result = NilErr
    /\ taskChan = <<>>
    /\ closes = 0
    /\ errChan = <<>>
    /\ workers = EmptyBag
    /\ scanner = idleScanner
    /\ outDirs = {}
    /\ calls = EmptyBag
    /\ raised = {}
    /\ latched = NilErr
    /\ errorCalls = EmptyBag
    /\ enqueued = EmptyBag
    /\ subs = {}
    /\ existing = { Tree[i].name : i \in 1..Len(Tree) }
    /\ events = <<>>
    /\ nEvents = 0
    /\ prev = NoPrev

NextNew == New \/ CrawlStart \/ WatchStart

SpecNew == InitNew /\ [][NextNew]_vars

(***************************************************************************)
(* Properties.                                                             *)
(***************************************************************************)
\* maxConcurrency as Crawl and Watch resolve it.
EffectiveMax == IF config.MaxConcurrency <= 0 THEN NumCPU ELSE config.MaxConcurrency

\* C1: in every Crawl or Watch run the number of FileCallback executions in
\* progress never exceeds the effective worker count, and never exceeds the
\* configured Concurrency when 0 < Concurrency <= maxConcurrency.
C1_ConcurrencyBound ==
    /\ Running <= IF config.Concurrency > 0 /\ config.Concurrency < EffectiveMax
                               THEN config.Concurrency ELSE EffectiveMax
    /\ (0 < config.Concurrency /\ config.Concurrency <= EffectiveMax)
           => Running <= config.Concurrency

\* C1 witness: a Watch run configured with Concurrency = 2 in which two
\* callbacks execute at the same moment (the bound is attained).
C1_Witness ==
    /\ mode = "watch"
    /\ config.Concurrency = 2
    /\ Running = 2

\* C2: when Crawl or Watch has returned after its context was cancelled, no
\* FileCallback is executing.
C2_NoCallbackAfterReturn ==
    (pc = "returned" /\ CtxDone) => Running = 0

\* C2 witness: the context is cancelled while a callback is in flight, and
\* the coordinator, having seen the cancellation, is waiting for it.
C2_Witness ==
    /\ pc = "waitCtx"
    /\ Running > 0

\* The relative path of a name below the input root.
RelOfName(name) == IF name = <<>> THEN <<".">> ELSE name

Excluded(cfg, relPath) ==
    \E i \in 1..Len(cfg.ExcludePatterns) : Match(cfg.ExcludePatterns[i], relPath)

Included(cfg, relPath) ==
    \E i \in 1..Len(cfg.Patterns) : Match(cfg.Patterns[i], relPath)

\* The regular files under the input root that match an include pattern,
\* match no exclude pattern and lie under no excluded directory, each paired
\* with its output path.
ExpectedTasks(cfg) ==
    { fileTask(cfg.InputDir \o Tree[i].name, cfg.OutputDir \o Tree[i].name) :
        i \in { j \in 1..Len(Tree) :
                  /\ ~Tree[j].isDir
                  /\ Included(cfg, Tree[j].name)
                  /\ ~Excluded(cfg, Tree[j].name)
                  /\ \A n \in 0..(Len(Tree[j].name) - 1) :
                        ~Excluded(cfg, RelOfName(SubSeq(Tree[j].name, 1, n))) } }

\* C3: a Crawl that finishes without cancellation and without any error
\* returns nil and has passed to FileCallback exactly the expected files.
C3_ExactFileSet ==
    (mode = "crawl" /\ pc = "returned" /\ ~CtxDone /\ raised = {})
        => /\ result = NilErr
           /\ BagToSet(calls) = ExpectedTasks(config)

\* C3 witness: such a Crawl has returned, three files processed.
C3_Witness ==
    /\ mode = "crawl" /\ pc = "returned" /\ ~CtxDone /\ raised = {}
    /\ Cardinality(BagToSet(calls)) = 3


\* Errors raised by FileCallback outcomes, and every fatal (non-context) error.
CallbackFailures == { e \in raised : e.kind \in {"callback", "stopped-by-callback"} }
Fatal == { e \in raised : e.kind # "context" }

\* C4: in a Crawl whose context is never cancelled, once a FileCallback has
\* returned an error or continue=false, Crawl returns a non-nil error; when
\* the error returned is a callback error it is one a callback raised, naming
\* that file's input path.
C4_CallbackFailureIsReturned ==
    (mode = "crawl" /\ pc = "returned" /\ ~CtxDone /\ CallbackFailures # {})
        => /\ result # NilErr
           /\ result.kind \in {"callback", "stopped-by-callback"}
                 => result \in CallbackFailures

\* Component-wise: outputRoot equals inputRoot, lies below it or above it.
Circular(cfg) ==
    \/ IsPathPrefix(cfg.InputDir, cfg.OutputDir)
    \/ IsPathPrefix(cfg.OutputDir, cfg.InputDir)

\* C5: for every pair of overlapping roots Crawl and Watch return the
\* circular-reference error at once: no worker is started, nothing walked,
\* nothing subscribed, no callback invoked, no output directory created.
C5_CircularRootsRejected ==
    Circular(config)
        => /\ workers = EmptyBag
           /\ scanner = idleScanner
           /\ subs = {}
           /\ calls = EmptyBag
           /\ outDirs = {}
           /\ pc # "init" => (pc = "returned" /\ result.kind = "circular")

\* C6: every task FileCallback has been invoked with, in Crawl and in Watch,
\* had the directory of its outputPath, and all its parents, created first.
C6_OutputDirBeforeCallback ==
    \A t \in BagToSet(calls) : Ancestors(Dir(t.outputPath)) \subseteq outDirs

\* C6 witness: in Watch a callback is executing for a file of a directory
\* created after Watch started.
C6_Witness ==
    /\ mode = "watch"
    /\ \E w \in Workers :
          /\ w.pc = "callback"
          /\ w.task.outputPath = config.OutputDir \o <<"newdir", "x.jpg">>

\* C7: a worker leaves os.MkdirAll either with the directory created and the
\* callback invoked, or, when it failed, with no callback invoked and an
\* error naming the directory to report; a worker reporting that error only
\* exits (the error accepted by errChan, or abandoned because the processor
\* context is done) and takes no other task.
C7_MkdirFailureStopsWorker ==
    [][\A w \in Workers : \A next \in BagToSet(workers') :
          (workers' = Moved(w, next) /\ next # w)
             => /\ w.pc = "mkdir"
                   => \/ /\ next.pc = "callback"
                         /\ Ancestors(Dir(w.task.outputPath)) \subseteq outDirs'
                      \/ /\ next.pc = "report"
                         /\ next.err.kind = "mkdir"
                         /\ next.err.path = Dir(w.task.outputPath)
                         /\ calls' = calls
                         /\ outDirs' = outDirs
                /\ (w.pc = "report" /\ w.err.kind = "mkdir")
                   => /\ next.pc = "exited"
                      /\ calls' = calls
                      /\ taskChan' = taskChan
                      /\ \/ errChan' = Append(errChan, w.err)
                         \/ ProcDone /\ errChan' = errChan
      ]_vars

\* C7 witness: a worker's directory creation failed and the run returned
\* the error naming that directory.
C7_Witness ==
    /\ pc = "returned"
    /\ result.kind = "mkdir"
    /\ result.path \notin outDirs

\* C8: a Crawl whose walk was cut short by the cancellation of its context,
\* no fatal error having been raised, returns exactly ctx.Err().
C8_CancelledCrawlReturnsCtxErr ==
    (mode = "crawl" /\ pc = "returned" /\ CtxErr(ctxErr) \in raised /\ Fatal = {})
        => result = CtxErr(ctxErr)

\* C9: when the coordinator decides with a fatal error in errChan and the
\* context cancelled, it takes the fatal error.
C9_FatalBeforeCancellation ==
    [][(/\ pc = "select"
        /\ pc' # "select"
        /\ CtxDone
        /\ errChan # <<>>
        /\ Head(errChan).kind # "context")
          => (pc' = "waitErr" /\ pendingErr' = Head(errChan))
      ]_vars

\* C10: in Crawl, once the coordinator has received a worker's fatal error
\* (the caller's context not cancelled), the scanner visits no further entry
\* and enqueues no further task.
C10_ErrorStopsScanner ==
    [][(/\ mode = "crawl"
        /\ pc = "waitErr"
        /\ pendingErr.kind \in {"callback", "stopped-by-callback", "mkdir"}
        /\ ~CtxDone
        /\ scanner.pc = "walk")
          => (/\ scanner'.pc # "send"
              /\ scanner'.idx = scanner.idx
              /\ enqueued' = enqueued)
      ]_vars

\* C11: when a run in which several fatal errors were raised has returned,
\* an error having been accepted by errChan, the value returned is the first
\* error errChan accepted.
C11_FirstLatchedErrorReturned ==
    (pc = "returned" /\ Cardinality(Fatal) >= 2 /\ latched # NilErr)
        => result = latched

\* C12: a Watch that started its event handler never returns nil: it returns
\* ctx.Err() after its context was cancelled, or a non-nil fatal error.
C12_WatchNeverReturnsNil ==
    (mode = "watch" /\ pc = "returned" /\ scanner.pc # "idle")
        => /\ result # NilErr
           /\ result.kind = "context" => (CtxDone /\ result = CtxErr(ctxErr))

\* The task of the file newdir/x.jpg.
NewDirFile == <<"newdir", "x.jpg">>
NewDirTask ==
    fileTask(config.InputDir \o NewDirFile, Join(config.OutputDir, NewDirFile))

\* C13: in Watch, once newdir/x.jpg exists (newdir was created after Watch
\* started, x.jpg after newdir), FileCallback is eventually invoked for it,
\* unless the context is cancelled, an error is raised or the file is removed.
C13_NewDirFileProcessed ==
    (mode = "watch" /\ NewDirFile \in existing)
        ~> \/ NewDirTask \in BagToSet(calls)
           \/ CtxDone
           \/ raised # {}
           \/ NewDirFile \notin existing

\* The task Watch builds for the file name below the input root.
TaskOf(name) == fileTask(config.InputDir \o name, Join(config.OutputDir, name))

\* A file name matching an include pattern and no exclude pattern.
Matching(name) == Included(config, name) /\ ~Excluded(config, name)

\* A create or modify event for name is waiting in watcher.Events.
PendingFor(name) ==
    \E i \in 1..Len(events) :
        /\ events[i].name = config.InputDir \o name
        /\ events[i].op \in {{"Create"}, {"Write"}}

\* The files the environment operates on.
WatchFiles == { name \in WatchNames : ~IsDirName(name) }

\* Every event and every task has been dealt with: no create or modify
\* event of a matching file is waiting, the event loop holds no task, and
\* FileCallback has been invoked once for every task enqueued.
CaughtUp ==
    /\ \A name \in WatchFiles : Matching(name) => ~PendingFor(name)
    /\ scanner.pc # "send"
    /\ calls = enqueued

\* C14: in Watch, (a) only files matching an include pattern and no exclude
\* pattern are ever enqueued or passed to FileCallback; (b) the event loop
\* answers a create or modify event of such a file, the file still existing,
\* by building the file's task, and leaves its send with the task on
\* taskChan (or, either time, raises an error); (c) as long as the
\* context is not cancelled and no error is raised, the run catches up again
\* and again: every such event has been received and FileCallback has been
\* invoked once for every task built.
C14_WatchEventsReachCallback ==
    /\ [](mode = "watch" =>
             \A t \in BagToSet(enqueued) \cup BagToSet(calls) :
                 \E name \in WatchFiles : t = TaskOf(name) /\ Matching(name))
    /\ [][(/\ mode = "watch"
           /\ events # <<>>
           /\ events' = Tail(events)
           /\ Head(events).op \in {{"Create"}, {"Write"}}
           /\ \E name \in WatchFiles \cap existing :
                 Matching(name) /\ Head(events).name = config.InputDir \o name)
             => \/ /\ scanner'.pc = "send"
                   /\ scanner'.task = fileTask(Head(events).name,
                                               Join(config.OutputDir,
                                                    Rel(config.InputDir, Head(events).name)))
                \/ raised' # raised
         ]_vars
    /\ [][(mode = "watch" /\ scanner.pc = "send" /\ scanner'.pc # "send")
             => \/ /\ enqueued' = enqueued (+) SetToBag({scanner.task})
                   /\ taskChan' = Append(taskChan, scanner.task)
                \/ raised' # raised
         ]_vars
    /\ []<>(mode = "watch" => (CaughtUp \/ CtxDone \/ raised # {}))

\* C14 witness: a modify event of the existing file a.jpg and a create event
\* of the excluded file dir/e.jpg have been handled; the callback was invoked
\* for a.jpg alone.
C14_Witness ==
    /\ mode = "watch"
    /\ nEvents = 2
    /\ events = <<>>
    /\ <<"dir", "e.jpg">> \in existing
    /\ BagToSet(calls) = {TaskOf(<<"a.jpg">>)}
    /\ ~CtxDone /\ raised = {}

\* Some directory strictly above name (the input root apart) matches an
\* exclude pattern.
UnderExcludedDir(cfg, name) ==
    \E n \in 1..(Len(name) - 1) : Excluded(cfg, SubSeq(name, 1, n))

\* The tasks the scanner has sent or is about to send.
ScannerTasks ==
    BagToSet(enqueued) \cup (IF scanner.pc = "send" THEN {scanner.task} ELSE {})

\* C15: in Crawl no entry below a directory matching an exclude pattern is
\* visited, and no file that matches an exclude pattern or lies below such a
\* directory is enqueued, whether or not it matches an include pattern.
C15_ExcludeWins ==
    mode = "crawl" =>
        /\ (scanner.pc \in {"walk", "send"} /\ scanner.idx <= Len(Tree))
              => ~UnderExcludedDir(config, Tree[scanner.idx].name)
        /\ \A t \in ScannerTasks :
              /\ ~Excluded(config, Rel(config.InputDir, t.inputPath))
              /\ ~UnderExcludedDir(config, Rel(config.InputDir, t.inputPath))

\* C15 witness: the walk is over, having passed dir/e.jpg (include and
\* exclude both match) and the excluded directory temp holding temp/b.jpg
\* (an include matches): three other files were enqueued.
C15_Witness ==
    /\ mode = "crawl"
    /\ scanner.pc = "walk"
    /\ scanner.idx > Len(Tree)
    /\ Included(config, <<"dir", "e.jpg">>) /\ Excluded(config, <<"dir", "e.jpg">>)
    /\ Included(config, <<"temp", "b.jpg">>) /\ Excluded(config, <<"temp">>)
    /\ Cardinality(BagToSet(enqueued)) = 3

\* Every task in existence: held by the discovery goroutine, buffered in
\* taskChan, held by a worker, or passed to FileCallback.
TasksInFlight ==
    ScannerTasks
        \cup { taskChan[i] : i \in 1..Len(taskChan) }
        \cup { w.task : w \in { x \in Workers : x.pc \in {"mkdir", "callback", "report"} } }
        \cup BagToSet(calls)

\* The names of the tree and of the files created while Watch runs.
AllNames == { Tree[i].name : i \in 1..Len(Tree) } \cup WatchNames

\* C16: every task of Crawl and of Watch pairs a file inputRoot/name with
\* outputRoot/name, the same relative name under both roots, and FileCallback
\* is invoked only with tasks that were enqueued, as they were enqueued.
C16_OutputPathMirrorsInput ==
    /\ \A t \in TasksInFlight :
          \E name \in AllNames :
              /\ name # <<>>
              /\ t.inputPath = config.InputDir \o name
              /\ t.outputPath = config.OutputDir \o name
    /\ calls \sqsubseteq enqueued

\* C16 witness: in Crawl the callback is executing for the nested file
\* dir/d.jpg with the output path outputRoot/dir/d.jpg.
C16_Witness ==
    /\ mode = "crawl"
    /\ \E w \in Workers :
          /\ w.pc = "callback"
          /\ w.task = fileTask(config.InputDir \o <<"dir", "d.jpg">>,
                               config.OutputDir \o <<"dir", "d.jpg">>)

\* C17: in a Crawl with one worker, once FileCallback has returned
\* continue=false or an error, FileCallback is not invoked again.
C17_NoCallbackAfterStop ==
    [][(mode = "crawl" /\ Concurrency(config) = 1 /\ CallbackFailures # {})
          => calls' = calls
      ]_vars

\* C17 witness: a one-worker Crawl has returned; the callback stopped on the
\* second of the three files enqueued, and only two were passed to it.
C17_Witness ==
    /\ mode = "crawl"
    /\ Concurrency(config) = 1
    /\ pc = "returned"
    /\ CallbackFailures # {}
    /\ BagCardinality(enqueued) = 3
    /\ BagCardinality(calls) = 2

\* The errors a worker raises: FileCallback outcomes and MkdirAll failures.
WorkerErrorKinds == {"callback", "stopped-by-callback", "mkdir"}

WalkErrorKinds == {"access", "error-callback", "stopped"}

\* The walk callback's answer to a walk error at path, by the ErrorCallback's
\* answer (stop, retErr).
WalkErrorOutcomes(cfg, path) ==
    IF ~cfg.ErrorCallback
        THEN \A stop \in BOOLEAN, retErr \in BOOLEAN :
                ErrorProtocol(cfg, path, stop, retErr) = Err("access", path, "walk")
    ELSE /\ \A stop \in BOOLEAN :
               ErrorProtocol(cfg, path, stop, TRUE) = Err("error-callback", path, "retErr")
         /\ ErrorProtocol(cfg, path, TRUE, FALSE) = Err("stopped", path, "walk")
         /\ ErrorProtocol(cfg, path, FALSE, FALSE) = NilErr

\* C19: in Crawl, at an entry the walk cannot access (the context not
\* cancelled): without an ErrorCallback the walk aborts with an error
\* wrapping the walk error; with one, it is invoked with the path and the
\* walk aborts with an error wrapping retErr (whatever stop is) or, for
\* (true, nil), the walk error, or for (false, nil) skips the entry and goes
\* on; and a Crawl whose walk aborted this way, its context not cancelled,
\* does not return nil: it returns that error when no other was raised.
C19_WalkErrorOutcomes ==
    /\ [][(/\ mode = "crawl"
           /\ scanner.pc = "walk"
           /\ scanner.idx \in walkErrs
           /\ ~CtxDone
           /\ scanner' # scanner)
             => LET path == config.InputDir \o Tree[scanner.idx].name
                IN  /\ WalkErrorOutcomes(config, path)
                    /\ errorCalls' = IF config.ErrorCallback
                                     THEN errorCalls (+) SetToBag({[path |-> path, err |-> "walk"]})
                                     ELSE errorCalls
                    /\ \/ /\ scanner'.pc = "report"
                          /\ scanner'.err.path = path
                          /\ scanner'.err.kind \in
                                IF config.ErrorCallback THEN {"error-callback", "stopped"}
                                ELSE {"access"}
                          /\ enqueued' = enqueued
                       \/ /\ config.ErrorCallback
                          /\ scanner'.pc = "walk"
                          /\ scanner'.idx = SkipPast(scanner.idx, scanner.idx + 1)
                          /\ raised' = raised
         ]_vars
    /\ []((/\ mode = "crawl"
           /\ pc = "returned"
           /\ ~CtxDone
           /\ \E e \in raised : e.kind \in WalkErrorKinds)
             => /\ result # NilErr
                /\ Cardinality(raised) = 1 => result \in raised)

\* The errors of a malformed include or exclude pattern.
PatternErrors == { e \in raised : e.kind \in {"pattern", "exclude-pattern"} }

\* C20: in Crawl, once the evaluation of a pattern has reported a syntax
\* error, the error raised names the pattern, the scanner enqueues no further
\* task and the ErrorCallback is not invoked; and the Crawl, its context not
\* cancelled, does not return nil: it returns the pattern's error when no
\* other was raised.
C20_BadPatternFailsCrawl ==
    /\ [][(mode = "crawl" /\ PatternErrors # {})
             => /\ enqueued' = enqueued
                /\ errorCalls' = errorCalls
         ]_vars
    /\ [](mode = "crawl"
             => \A e \in PatternErrors :
                   /\ BadPattern(e.cause)
                   /\ \E i \in 1..Len(config.Patterns \o config.ExcludePatterns) :
                         (config.Patterns \o config.ExcludePatterns)[i] = e.cause)
    /\ []((mode = "crawl" /\ pc = "returned" /\ ~CtxDone /\ PatternErrors # {})
             => /\ result # NilErr
                /\ Cardinality(raised) = 1 => result \in PatternErrors)

\* The smaller of two integers.
Min(a, b) == IF a <= b THEN a ELSE b

\* The number of workers the configuration asks for: min(Concurrency, M) when
\* Concurrency > 0 and M otherwise, M being MaxConcurrency when > 0 and the
\* host's CPU count otherwise.
ExpectedWorkers(cfg) ==
    LET M == IF cfg.MaxConcurrency > 0 THEN cfg.MaxConcurrency ELSE NumCPU
    IN  IF cfg.Concurrency > 0 THEN Min(cfg.Concurrency, M) ELSE M

\* C21: for every Concurrency and MaxConcurrency, Crawl and Watch compute
\* the same worker count, it is ExpectedWorkers(config) and at least 1, and
\* that many workers have been started once the run has started its pool.
C21_WorkerCount ==
    /\ Concurrency(config) = ExpectedWorkers(config)
    /\ WatchConcurrency(config) = Concurrency(config)
    /\ Concurrency(config) >= 1
    /\ pc \in {"select", "addWatchDirs"}
          => BagCardinality(workers) = ExpectedWorkers(config)
    /\ workers # EmptyBag => pc \in {"select", "addWatchDirs"}

\* C21 witness: a Watch configured with Concurrency above the host's CPU
\* count and a negative MaxConcurrency has started NumCPU workers.
C21_Witness ==
    /\ mode = "watch"
    /\ pc = "addWatchDirs"
    /\ config.Concurrency = NumCPU + 1
    /\ config.MaxConcurrency = 0 - 1
    /\ BagCardinality(workers) = NumCPU

\* One of the four required fields of the Config is missing.
Missing(cfg) ==
    \/ cfg.InputDir = EmptyDir
    \/ cfg.OutputDir = EmptyDir
    \/ cfg.Patterns = << >>
    \/ ~cfg.FileCallback

\* C22: NewMirrorTransform returns an error and the nil instance whenever
\* InputDir is empty, OutputDir is empty, Patterns is empty or FileCallback
\* is nil, and an instance and no error whenever all four are present.
C22_ConstructionValidates ==
    /\ pc = "new"
          => LET r == NewMirrorTransform(config)
             IN  /\ Missing(config) => (r.err # NilErr /\ r.mt = NilInstance)
                 /\ ~Missing(config) => (r.err = NilErr /\ ~r.mt.nil)
    /\ pc = "noinstance" => (Missing(config) /\ result # NilErr)
    /\ pc \notin {"new", "noinstance"} => ~Missing(config)

\* C22 witness: construction failed for a Config whose only fault is the nil
\* FileCallback.
C22_Witness ==
    /\ pc = "noinstance"
    /\ config.InputDir # EmptyDir
    /\ config.OutputDir # EmptyDir
    /\ config.Patterns # << >>
    /\ ~config.FileCallback

\* C23: two successive Crawl calls on the same instance.  (a) The second
\* call starts with an empty, open task channel, an empty error slot, a
\* processor context not cancelled and idle workers, whatever the first call
\* left behind; (b) a second call that runs undisturbed passes exactly the
\* expected files to FileCallback, each once; (c) when the first call ran
\* undisturbed too, both passed the same set of (inputPath, outputPath).
C23_SecondCrawlSameTasks ==
    /\ [][prev' # prev
             => /\ taskChan' = <<>>
                /\ closes' = 0
                /\ errChan' = <<>>
                /\ pendingErr' = NilErr
                /\ ~procCancelled' /\ ctxErr' = "none"
                /\ \A w \in BagToSet(workers') : w = idleWorker
                /\ BagCardinality(workers') = Concurrency(config)
         ]_vars
    /\ []((mode = "crawl" /\ prev.called /\ pc = "returned" /\ ~CtxDone /\ raised = {})
             => /\ result = NilErr
                /\ calls = SetToBag(ExpectedTasks(config))
                /\ prev.clean => BagToSet(calls) = prev.calls)

\* C23 witness: both calls ran undisturbed and the second has returned, three
\* files passed to FileCallback each time.
C23_Witness ==
    /\ mode = "crawl" /\ pc = "returned" /\ ~CtxDone /\ raised = {}
    /\ prev.called /\ prev.clean
    /\ Cardinality(prev.calls) = 3
    /\ BagCardinality(calls) = 3

\* Number of copies of task t waiting in taskChan.
InChan(t) == Cardinality({ i \in 1..Len(taskChan) : taskChan[i] = t })

\* Number of workers that received t and have not called FileCallback yet.
Received(t) ==
    BagCardinality([w \in { x \in Workers : x.pc = "mkdir" /\ x.task = t } |-> workers[w]])

\* C24: every copy of a task sent on taskChan is in the channel, or with
\* the one worker that received it, or was passed to FileCallback once, or
\* is gone (never more than one of these); and within one Crawl no task and
\* no input file is passed to FileCallback more than once.
C24_AtMostOnce ==
    /\ \A t \in (BagToSet(enqueued) \cup BagToSet(calls)
                   \cup { w.task : w \in Workers }) \ {NoTask} :
          InChan(t) + Received(t) + CopiesIn(t, calls) <= CopiesIn(t, enqueued)
    /\ mode = "crawl"
          => /\ \A t \in BagToSet(calls) : CopiesIn(t, calls) = 1
             /\ \A t1, t2 \in BagToSet(calls) :
                   t1.inputPath = t2.inputPath => t1 = t2

\* C24 witness: a Crawl with two workers, both executing FileCallback, the
\* third matching file waiting in taskChan.
C24_Witness ==
    /\ mode = "crawl"
    /\ Running = 2
    /\ taskChan # <<>>
    /\ BagCardinality(enqueued) = 3

\* C25: once the cancellation signal of the workers has fired (the caller's
\* context is done or the coordinator called cancelProcessors), no worker
\* takes a task out of taskChan, buffered tasks or not.
C25_NoTaskTakenAfterCancel ==
    [][(ProcDone /\ taskChan # <<>>) => taskChan' # Tail(taskChan)]_vars

\* C26: whenever Crawl or Watch has returned after starting its workers,
\* every worker it started has exited.
C26_WorkersExitedAtReturn ==
    (pc = "returned" /\ workers # EmptyBag)
        => \A w \in Workers : w.pc = "exited"

\* C27: a Crawl whose context is never cancelled and in which no error is
\* raised (the walk meets none, every directory is created, every
\* FileCallback returns (true, nil)) eventually returns; and when it has
\* returned, it returned nil, the scanner closed taskChan once, taskChan is
\* drained and every matching file was passed to FileCallback.
C27_CrawlTerminates ==
    /\ (mode = "crawl") ~> (pc = "returned" \/ CtxDone \/ raised # {})
    /\ []((mode = "crawl" /\ pc = "returned" /\ ~CtxDone /\ raised = {})
             => /\ result = NilErr
                /\ closes = 1
                /\ taskChan = <<>>
                /\ calls = enqueued
                /\ BagToSet(calls) = ExpectedTasks(config))

\* C27 witness: such a Crawl with two workers has returned nil, its three
\* matching files (more than taskChan holds) processed and the workers gone.
C27_Witness ==
    /\ mode = "crawl" /\ pc = "returned" /\ ~CtxDone /\ raised = {}
    /\ result = NilErr
    /\ BagCardinality(workers) = 2
    /\ BagCardinality(calls) > TaskChanCap
    /\ closes = 1

\* C28: in a Crawl whose context is never cancelled, once a worker has
\* raised a fatal error, Crawl eventually returns.
C28_CrawlReturnsAfterWorkerError ==
    (mode = "crawl" /\ \E e \in raised : e.kind \in WorkerErrorKinds)
        ~> (pc = "returned" \/ CtxDone)

\* C29: once the caller's context is cancelled, (a) Crawl eventually
\* returns, every worker and the scanner having exited; (b) a scanner
\* blocked sending on a full taskChan leaves its send by aborting with
\* ctx.Err(), and a scanner holding that error only reports it and exits;
\* (c) the scanner enqueues at most one further task: its pending send may
\* still succeed, and from then on it visits no entry and sends nothing.
C29_CancelledCrawlReturns ==
    /\ (mode = "crawl" /\ CtxDone) ~> (pc = "returned")
    /\ []((mode = "crawl" /\ pc = "returned")
             => /\ \A w \in Workers : w.pc = "exited"
                /\ scanner.pc \in {"idle", "exited"})
    /\ [][(/\ mode = "crawl" /\ CtxDone
           /\ scanner.pc = "send"
           /\ Len(taskChan) = TaskChanCap
           /\ scanner' # scanner)
             => /\ scanner'.pc = "report"
                /\ scanner'.err = CtxErr(ctxErr)
                /\ enqueued' = enqueued
         ]_vars
    /\ [][(mode = "crawl" /\ CtxDone /\ scanner.pc = "report" /\ scanner' # scanner)
             => scanner'.pc = "exited"
         ]_vars
    /\ [][(mode = "crawl" /\ CtxDone /\ scanner.pc = "send" /\ enqueued' # enqueued)
             => /\ enqueued' = enqueued (+) SetToBag({scanner.task})
                /\ scanner'.pc = "walk"
         ]_vars
    /\ [][(mode = "crawl" /\ CtxDone /\ scanner.pc \in {"walk", "report", "exited"})
             => /\ enqueued' = enqueued
                /\ scanner'.pc # "send"
                /\ scanner'.pc = "walk" => scanner' = scanner
         ]_vars

\* C29 witness: the context was cancelled while the scanner was blocked on
\* the full taskChan; Crawl has returned ctx.Err(), the walk cut short and a
\* task left in the buffer.
C29_Witness ==
    /\ mode = "crawl" /\ pc = "returned" /\ CtxDone
    /\ result = CtxErr(ctxErr)
    /\ CtxErr(ctxErr) \in raised
    /\ Len(taskChan) = TaskChanCap
    /\ scanner.pc = "exited"
    /\ BagCardinality(enqueued) < Cardinality(ExpectedTasks(config))

\* C30: in Watch, (a) the coordinator that received an error has cancelled
\* the processor context, which is the context of the event loop; (b) an
\* event loop blocked enqueuing on a full taskChan under that cancellation
\* leaves its send by aborting, and an event loop with an error to report
\* closes taskChan and exits; (c) once errChan has accepted a worker's fatal
\* error as its first, Watch eventually returns, the event loop having
\* closed taskChan once and exited, and it returns that error unless the
\* caller's context was cancelled as well.
C30_WorkerErrorStopsWatch ==
    /\ []((mode = "watch" /\ pc = "waitErr") => ProcDone)
    /\ [][(/\ mode = "watch" /\ ProcDone
           /\ scanner.pc = "send"
           /\ Len(taskChan) = TaskChanCap
           /\ scanner' # scanner)
             => /\ scanner'.pc = "report"
                /\ enqueued' = enqueued
         ]_vars
    /\ [][(mode = "watch" /\ scanner.pc = "report" /\ scanner' # scanner)
             => /\ scanner'.pc = "exited"
                /\ closes' = closes + 1
         ]_vars
    /\ (mode = "watch" /\ latched.kind \in WorkerErrorKinds)
          ~> (/\ pc = "returned"
              /\ scanner.pc = "exited"
              /\ closes = 1
              /\ (result = latched \/ CtxDone))

\* C30 witness: Watch has returned a worker's error with the context never
\* cancelled, the event loop stopped while an event was still waiting.
C30_Witness ==
    /\ mode = "watch" /\ pc = "returned" /\ ~CtxDone
    /\ result.kind \in WorkerErrorKinds
    /\ result = latched
    /\ scanner.pc = "exited"
    /\ events # <<>>

\* The event loop receives the event at the head of watcher.Events.
EventReceived == mode = "watch" /\ events # <<>> /\ events' = Tail(events)

\* C31: in Watch, receiving an event whose op includes remove or rename has
\* no effect: no task is built or enqueued, no subscription added, no
\* callback invoked, no error raised; the subscription set and taskChan are
\* unchanged and the event loop stays in its loop.
C31_RemoveRenameIgnored ==
    [][(EventReceived /\ Head(events).op \cap {"Remove", "Rename"} # {})
          => /\ UNCHANGED << taskChan, enqueued, subs, calls, errorCalls, raised,
                             errChan, outDirs >>
             /\ scanner' = scanner
             /\ scanner.pc = "loop"
      ]_vars

\* C31 witness: a.jpg went away and was created again; the event of its
\* going away has been received, nothing was enqueued, and the create event
\* is next.
C31_Witness ==
    /\ mode = "watch"
    /\ nEvents = 2
    /\ events = << [name |-> config.InputDir \o <<"a.jpg">>, op |-> {"Create"}] >>
    /\ <<"a.jpg">> \in existing
    /\ enqueued = EmptyBag
    /\ scanner.pc = "loop"

\* The event loop receives a create or modify event of an existing directory.
DirEventReceived ==
    /\ EventReceived
    /\ Head(events).op \cap {"Remove", "Rename"} = {}
    /\ Rel(config.InputDir, Head(events).name) \in existing
    /\ IsDirName(Rel(config.InputDir, Head(events).name))

\* C32: in Watch, a create or modify event of a directory never builds or
\* enqueues a task.  When the directory matches an exclude pattern the
\* subscription set is unchanged and nothing is raised; when it matches none
\* it has been added to the subscription set, unless the step raised an
\* error (watcher.Add or a pattern failed) or os.Stat failed on it.
C32_DirectoryEvents ==
    [][DirEventReceived
          => LET path == Head(events).name
                 relPath == Rel(config.InputDir, path)
                 failed == raised' # raised \/ errorCalls' # errorCalls
             IN  /\ UNCHANGED << taskChan, enqueued >>
                 /\ scanner'.pc # "send"
                 /\ subs' \in {subs, subs \cup {path}}
                 /\ MatchLoop(config.ExcludePatterns, relPath, 1).hit = "match"
                       => (failed \/ (subs' = subs /\ scanner' = scanner))
                 /\ MatchLoop(config.ExcludePatterns, relPath, 1).hit = "none"
                       => (failed \/ (path \in subs' /\ scanner' = scanner))
                 /\ failed => subs' = subs
      ]_vars

\* C32 witness: newdir was created and subscribed, and a modify event of the
\* excluded directory temp was received, temp staying unsubscribed.
C32_Witness ==
    /\ mode = "watch"
    /\ nEvents = 2
    /\ events = <<>>
    /\ (config.InputDir \o <<"newdir">>) \in subs
    /\ (config.InputDir \o <<"temp">>) \notin subs
    /\ existing = { Tree[i].name : i \in 1..Len(Tree) } \cup { <<"newdir">> }
    /\ raised = {} /\ errorCalls = EmptyBag

\* A create or modify event is received and its path is no longer there.
VanishedEventReceived ==
    /\ EventReceived
    /\ Head(events).op \cap {"Remove", "Rename"} = {}
    /\ Rel(config.InputDir, Head(events).name) \notin existing

\* A create or modify event is received, its path exists, and os.Stat fails:
\* the ErrorCallback is invoked, or without one the access error is raised.
StatFailureReceived ==
    /\ EventReceived
    /\ Head(events).op \cap {"Remove", "Rename"} = {}
    /\ Rel(config.InputDir, Head(events).name) \in existing
    /\ \/ errorCalls' # errorCalls
       \/ \E e \in raised' \ raised : e.kind = "access"

\* C33: in Watch, an event whose path no longer exists when it is examined
\* is ignored: no task, no ErrorCallback call, no error, no subscription, and
\* the event loop stays in its loop.  Any other failure of the stat follows
\* the ErrorCallback protocol: without an ErrorCallback the event loop raises
\* the error for that path; with one it is invoked once with the path and
\* the loop either raises an error wrapping retErr or the stop, or (false,
\* nil) leaves the loop as it was; a raised error ends the event loop, which
\* takes no further event and enqueues nothing more.
C33_StatFailures ==
    /\ [][VanishedEventReceived
             => /\ UNCHANGED << taskChan, enqueued, subs, errorCalls, raised,
                                errChan, closes, pc, result >>
                /\ scanner' = scanner
                /\ scanner.pc = "loop"
         ]_vars
    /\ [][StatFailureReceived
             => LET path == Head(events).name
                IN  /\ UNCHANGED << taskChan, enqueued, subs, closes >>
                    /\ ~config.ErrorCallback
                          => /\ errorCalls' = errorCalls
                             /\ scanner'.pc = "report"
                             /\ scanner'.err = Err("access", path, "walk")
                    /\ config.ErrorCallback
                          => /\ errorCalls' = errorCalls (+)
                                   SetToBag({[path |-> path, err |-> "stat"]})
                             /\ \/ /\ scanner' = scanner
                                   /\ raised' = raised
                                \/ /\ scanner'.pc = "report"
                                   /\ scanner'.err.path = path
                                   /\ scanner'.err.kind \in {"error-callback", "stopped"}
                    /\ scanner'.pc = "report" => scanner'.err \in raised'
         ]_vars
    /\ [][(mode = "watch" /\ scanner.pc \in {"report", "exited"})
             => /\ scanner'.pc \in {"report", "exited"}
                /\ ~EventReceived
                /\ UNCHANGED << enqueued, subs >>
                /\ \/ taskChan' = taskChan
                   \/ taskChan # <<>> /\ taskChan' = Tail(taskChan)
         ]_vars

\* A modify event of a.jpg was overtaken by the file's removal: the event
\* loop is about to examine the path of an event that is no longer there,
\* and nothing has been enqueued, reported or raised so far.
C33_Witness ==
    /\ mode = "watch"
    /\ scanner.pc = "loop"
    /\ ~ProcDone
    /\ events = << [name |-> config.InputDir \o <<"a.jpg">>, op |-> {"Write"}],
                   [name |-> config.InputDir \o <<"a.jpg">>, op |-> {"Remove"}] >>
    /\ <<"a.jpg">> \notin existing
    /\ enqueued = EmptyBag
    /\ raised = {}
    /\ errorCalls = EmptyBag

\* The errors raised for a subscription-layer error (path "watcher").
WatcherErrors ==
    { e \in raised : e.path = <<>> /\ e.kind \in {"watcher", "error-callback", "stopped"} }

\* The event loop receives an error from watcher.Errors.
WatcherErrorReceived ==
    /\ mode = "watch"
    /\ scanner.pc = "loop"
    /\ nEvents' = nEvents + 1
    /\ \/ scanner'.pc = "report"
       \/ errorCalls' # errorCalls

\* C34: in Watch, a subscription-layer error without an ErrorCallback, or
\* with one answering stop or returning an error, makes the event loop raise
\* an error, close the Task Channel and exit, and Watch, its context not
\* cancelled, returns that error; with an ErrorCallback answering (false,
\* nil) the event loop stays as it was and goes on receiving events.
C34_WatcherErrorFatal ==
    /\ [][WatcherErrorReceived
             => /\ UNCHANGED << taskChan, closes, enqueued, subs, events >>
                /\ ~config.ErrorCallback
                      => /\ errorCalls' = errorCalls
                         /\ scanner'.pc = "report"
                         /\ scanner'.err = Err("watcher", <<>>, "watcher")
                /\ config.ErrorCallback
                      => /\ errorCalls' = errorCalls (+)
                               SetToBag({[path |-> <<"watcher">>, err |-> "watcher"]})
                         /\ \/ scanner' = scanner /\ raised' = raised
                            \/ /\ scanner'.pc = "report"
                               /\ scanner'.err \in
                                     { Err("error-callback", <<>>, "retErr"),
                                       Err("stopped", <<>>, "watcher") }
                /\ scanner'.pc = "report" => scanner'.err \in raised'
         ]_vars
    /\ [][(mode = "watch" /\ scanner.pc = "report" /\ scanner' # scanner)
             => scanner'.pc = "exited" /\ closes' = closes + 1
         ]_vars
    /\ []((mode = "watch" /\ pc = "returned" /\ ~CtxDone /\ WatcherErrors # {})
             => result \in WatcherErrors)

\* C35: in Watch, once the event loop's context is cancelled the running
\* event loop receives no further event and sends no further task: it only
\* goes on to close the Task Channel and exit.
C35_NoEventAfterCancel ==
    [][(mode = "watch" /\ ProcDone /\ scanner.pc \in {"loop", "send", "report"})
          => /\ ~EventReceived
             /\ enqueued' = enqueued
             /\ Len(taskChan') <= Len(taskChan)
             /\ scanner'.pc \in {scanner.pc, "report", "exited"}
             /\ scanner'.pc = "exited" => closes' = 1
      ]_vars

\* The relative path name, or one of the directories above it short of the
\* root, matches an exclude pattern.
ExcludedOrBeneath(name) ==
    \E k \in 1..Len(name) : \E i \in 1..Len(config.ExcludePatterns) :
        Match(config.ExcludePatterns[i], SubSeq(name, 1, k))

\* The directories of the tree that are neither excluded nor beneath an
\* excluded directory, as paths.
NonExcludedDirs ==
    { config.InputDir \o Tree[i].name :
        i \in { j \in 1..Len(Tree) : Tree[j].isDir /\ ~ExcludedOrBeneath(Tree[j].name) } }

\* C36: when Watch starts its event loop after a walk that met no access
\* error, the subscription set is exactly the set of directories of the
\* tree that neither match an exclude pattern nor lie beneath one that
\* does (a walk whose access errors the ErrorCallback skipped subscribes a
\* subset of it); and at no time is a regular file subscribed.
C36_InitialSubscriptions ==
    /\ [][(mode = "watch" /\ pc = "addWatchDirs" /\ pc' = "select")
             => /\ scanner.pc = "idle" /\ scanner'.pc = "loop"
                /\ subs' \subseteq NonExcludedDirs
                /\ errorCalls' = errorCalls => subs' = NonExcludedDirs
         ]_vars
    /\ [](mode = "watch"
             => \A path \in subs :
                   /\ IsPathPrefix(config.InputDir, path)
                   /\ IsDirName(SubSeq(path, Len(config.InputDir) + 1, Len(path))))

\* The event loop has just been started: the root and dir are subscribed,
\* temp (excluded by temp/**) is not, and no event has been produced yet.
C36_Witness ==
    /\ mode = "watch"
    /\ pc = "select"
    /\ scanner.pc = "loop"
    /\ nEvents = 0
    /\ errorCalls = EmptyBag
    /\ subs = { config.InputDir, config.InputDir \o <<"dir">> }
    /\ (config.InputDir \o <<"temp">>) \notin subs

\* C37: during a Watch run no step removes a directory from the
\* subscription set; it is written only by the initial walk, before the
\* event loop exists, and afterwards only by the event loop handling an
\* event; and the walk and the event loop never run at the same time.
C37_SubscriptionsOnlyGrow ==
    /\ [][mode = "watch"
             => /\ subs \subseteq subs'
                /\ subs' # subs
                      => \/ /\ pc = "addWatchDirs"
                            /\ scanner.pc = "idle"
                            /\ subs = {}
                         \/ /\ pc \notin {"init", "addWatchDirs"}
                            /\ scanner.pc = "loop"
                            /\ EventReceived
                            /\ subs' = subs \cup {Head(events).name}
         ]_vars
    /\ [](mode = "watch"
             => /\ pc \in {"init", "addWatchDirs"} => (scanner.pc = "idle" /\ events = <<>>)
                /\ pc = "init" => subs = {})

\* Both writers have acted: the walk subscribed the root and dir, and the
\* event loop added newdir while the coordinator waits in its select.
C37_Witness ==
    /\ mode = "watch"
    /\ pc = "select"
    /\ scanner.pc = "loop"
    /\ subs = { config.InputDir, config.InputDir \o <<"dir">>,
                config.InputDir \o <<"newdir">> }

\* C38: in every Crawl and Watch run, taskChan is closed at most once; the
\* step that closes it is the discovery driver's (scanner's or event
\* loop's) exit, and every exit of the driver closes it, so that the driver
\* has exited exactly when the channel has been closed once; and once it is
\* closed nothing more is sent on it.
C38_ClosedOnceByDriver ==
    /\ [](closes \in {0, 1})
    /\ [](scanner.pc = "exited" <=> closes = 1)
    /\ [][closes' # closes
             => /\ closes' = closes + 1
                /\ scanner.pc \in {"walk", "send", "report", "loop"}
                /\ scanner'.pc = "exited"
                /\ UNCHANGED << workers, pc, taskChan >>
         ]_vars
    /\ [][closes >= 1
             => /\ enqueued' = enqueued
                /\ \/ taskChan' = taskChan
                   \/ taskChan # <<>> /\ taskChan' = Tail(taskChan)
         ]_vars

\* A Watch run whose event loop enqueued a task and then left on the
\* cancellation, closing taskChan.
C38_Witness ==
    /\ mode = "watch"
    /\ scanner.pc = "exited"
    /\ closes = 1
    /\ enqueued # EmptyBag
    /\ raised = {}

\* Some worker is at its select over the send on errChan and the Done
\* channel of processorCtx.
WorkerReporting == \E w \in Workers : w.pc = "report"

\* C39: with the caller's context never cancelled, a discovery driver that
\* has an error to report eventually gets past its report and exits, the
\* workers that have an error to report eventually get past theirs, and the
\* run whose driver had an error to report eventually returns.
C39_ErrorReportsNeverBlock ==
    /\ (scanner.pc = "report") ~> (scanner.pc = "exited" \/ CtxDone)
    /\ WorkerReporting ~> (~WorkerReporting \/ CtxDone)
    /\ (scanner.pc = "report") ~> (pc = "returned" \/ CtxDone)

\* The task of the root's matching file a.jpg.
RootFileTask ==
    fileTask(config.InputDir \o <<"a.jpg">>, config.OutputDir \o <<"a.jpg">>)

\* C40: whatever the exclude patterns, among them one matching ".", the
\* root is not excluded: Crawl's walk goes from the root on to its first
\* entry, a Crawl that returns nil without a cancellation has enqueued the
\* root's matching file, and a Watch that starts its event loop has
\* subscribed the root.
C40_RootNeverExcluded ==
    /\ [][(/\ mode = "crawl"
           /\ scanner.pc = "walk"
           /\ scanner.idx = 1
           /\ ~CtxDone
           /\ scanner' # scanner)
             => (scanner'.pc = "walk" /\ scanner'.idx = 2)
         ]_vars
    /\ []((mode = "crawl" /\ pc = "returned" /\ result = NilErr /\ ~CtxDone)
             => BagIn(RootFileTask, enqueued))
    /\ [][(mode = "watch" /\ pc = "addWatchDirs" /\ pc' = "select")
             => config.InputDir \in subs'
         ]_vars

====
